---- MODULE Spec2Model ----
(* Timer lifecycle of the time tracker: the TimeEntryService methods        *)
(* (src/lib/services/time-entries.ts), the MCP tools that call them, and    *)
(* the HTTP handlers POST /api/time-entries and PATCH                       *)
(* /api/time-entries/active, over one shared time_entries table.            *)
EXTENDS Integers, Sequences, FiniteSets, TLC

\* ---------------------------------------------------------------- bounds
\* number of time-entry ids ever generated (nanoid() / te_... ids)
MaxEntries == 2
\* number of clock ticks the wall clock advances
MaxTicks == 1
\* number of concurrently running start calls
NumCalls == 2
\* length of a roles array passed to createAuthorizationContext
MaxRoles == 2
\* length of a directReports list and of a targetUserIds list
MaxIds == 2

\* ------------------------------------------------------------- constants
\* (1000 * 60) in every duration computation
MsPerMinute == 1000 * 60
\* the clock advances a third of a minute per tick
TickMs == MsPerMinute \div 3

Users == {"u1", "u2"}
\* p1 and p2 exist, p3 names no row of the projects table
ProjectIds == {"p1", "p2", "p3"}
Descriptions == {"a"}
\* timestamps a caller may pass to the manual-entry and update tools (ms)
InputTimes == {0, MsPerMinute + MsPerMinute \div 2}

\* a nullable column: <<>> is null, <<v>> is the value v
Null == <<>>
Some(v) == <<v>>
IsNull(x) == x = <<>>
Val(x) == x[1]

\* an optional argument that was not passed
Undefined == "undefined"
\* JavaScript truthiness of an optional string argument: if (entryId)
Truthy(s) == s # Undefined /\ s # ""

\* the ids nanoid() hands out, in order of generation
IdNames == <<"e1", "e2", "e3", "e4", "e5", "e6">>

Calls == 1..NumCalls

VARIABLES
  entries,   \* the time_entries table: id -> row
  projects,  \* the projects table: id -> row
  nextId,    \* index of the next fresh id
  now,       \* the wall clock, in ms (new Date())
  last,      \* the response on its way to the caller: operation and outcome
  calls,     \* in-flight start calls, one per concurrent request
  auth,      \* an authorization context, the check made on it and its result
  req,       \* the last read request (listing, report, sign-in) and its response
  clients    \* the clients table: id -> row

vars == <<entries, projects, nextId, now, last, calls, auth, req, clients>>

\* ------------------------------------------------------------ pure parts

\* a rounding to the nearest integer that sends halves down
MathRoundHalfDown(num, den) == (2 * num + den - 1) \div (2 * den)

\* Math.round(num / den) for den > 0: nearest integer, halves towards +infinity
MathRound(num, den) == (2 * num + den) \div (2 * den)

\* Math.round((endTime.getTime() - startTime.getTime()) / (1000 * 60))
DurationMinutes(startTime, endTime) == MathRound(endTime - startTime, MsPerMinute)

\* a row of time_entries (the createdAt/updatedAt audit columns are left out)
TimeEntry(id, projectId, userId, description, startTime, endTime, durationMinutes, isActive) ==
  [id |-> id, projectId |-> projectId, userId |-> userId, description |-> description,
   startTime |-> startTime, endTime |-> endTime, durationMinutes |-> durationMinutes,
   isActive |-> isActive]

\* the active rows of every user: a lookup that leaves out the userId filter
ActiveIdsAnyUser(es, u) == {id \in DOMAIN es : es[id].isActive}

\* where userId = u and isActive = true
ActiveIds(es, u) == {id \in DOMAIN es : es[id].userId = u /\ es[id].isActive}

\* insert(timeEntries).values(row)
Insert(es, row) == [id \in DOMAIN es \cup {row.id} |-> IF id = row.id THEN row ELSE es[id]]

\* update(timeEntries).set(fields).where(id = id)
SetFields(es, id, row) == [es EXCEPT ![id] = row]

\* a start request: where it stands, which handler serves it, its arguments
\* and, once it is done, what it returned
Call(pc, path, userId, projectId, description, result) ==
  [pc |-> pc, path |-> path, userId |-> userId, projectId |-> projectId,
   description |-> description, result |-> result]

NoCalls == [c \in Calls |-> Call("idle", "none", "u1", "p1", "a", "none")]

Outcome(op, result) == [op |-> op, result |-> result]
\* no response is on its way: the server is free to take a request
NoOutcome == Outcome("none", "none")
Idle == last = NoOutcome

\* the empty time_entries table
EmptyTable == [id \in {} |-> Null]

\* the roles argument of createAuthorizationContext: null, undefined, a
\* string (its characters) or an array (its items)
RolesInput(kind, chars, items) == [kind |-> kind, chars |-> chars, items |-> items]

\* the optional metadata argument, and its optional directReports list
Metadata(defined, directReports) == [defined |-> defined, directReports |-> directReports]

\* { authorized, reason }, or the fact that the call threw
AuthorizationResult(authorized, reason) ==
  [threw |-> FALSE, authorized |-> authorized, reason |-> reason]
Threw == [threw |-> TRUE, authorized |-> FALSE, reason |-> Null]

\* no context was built and no check was made yet
NoAuth ==
  [built |-> FALSE,
   input |-> RolesInput("undefined", <<>>, <<>>),
   context |-> [userId |-> "", roles |-> <<>>, metadata |-> Metadata(FALSE, Null)],
   op |-> "none", permission |-> "", targetUserId |-> "", targetUserIds |-> Null,
   result |-> AuthorizationResult(FALSE, Null)]

\* no read request was made yet
NoReq == [op |-> "none"]

Init ==
  /\ entries = EmptyTable
  /\ projects = [p \in {"p1", "p2"} |-> [userId |-> IF p = "p1" THEN "u1" ELSE "u2",
                                          clientId |-> IF p = "p1" THEN "c1" ELSE "c2",
                                          active |-> TRUE]]
  /\ nextId = 1
  /\ now = 0
  /\ last = NoOutcome
  /\ calls = NoCalls
  /\ auth = NoAuth
  /\ req = NoReq
  /\ clients = [c \in {"c1", "c2"} |-> [userId |-> IF c = "c1" THEN "u1" ELSE "u2",
                                         active |-> TRUE]]

\* time passes between two requests
Tick ==
  /\ now < MaxTicks * TickMs
  /\ now' = now + TickMs
  /\ UNCHANGED <<entries, projects, nextId, last, calls, auth, req, clients>>

\* ------------------------------------------------- start (service and MCP)

ProjectNotFound == "Project not found or does not belong to user"
ActiveExists == "There is already an active time entry. Stop it first."
Created == "created"

\* select from projects where id = projectId and userId = userId
ProjectOfUser(projs, projectId, userId) ==
  projectId \in DOMAIN projs /\ projs[projectId].userId = userId

\* startTimeTracking without its active-entry check
StartOutcomeUnchecked(es, projs, userId, projectId) ==
  IF ~ProjectOfUser(projs, projectId, userId) THEN ProjectNotFound ELSE Created

\* the outcome of startTimeTracking: what it throws, or that it inserts
StartOutcome(es, projs, userId, projectId) ==
  IF ~ProjectOfUser(projs, projectId, userId) THEN ProjectNotFound
  ELSE IF ActiveIds(es, userId) # {} THEN ActiveExists
  ELSE Created

\* the row startTimeTracking and POST /api/time-entries insert
NewActiveEntry(id, userId, projectId, description, t) ==
  TimeEntry(id, projectId, userId, description, t, Null, Null, TRUE)

\* TimeEntryService.startTimeTracking, called by the start_time_tracking tool
StartTimeTracking(userId, projectId, description) ==
  LET r == StartOutcome(entries, projects, userId, projectId) IN
  /\ Idle
  /\ r = Created => nextId <= MaxEntries
  /\ entries' = IF r = Created
                THEN Insert(entries, NewActiveEntry(IdNames[nextId], userId, projectId, description, now))
                ELSE entries
  /\ nextId' = IF r = Created THEN nextId + 1 ELSE nextId
  /\ last' = Outcome("startTimeTracking", r)
  /\ UNCHANGED <<projects, now, calls, auth, req, clients>>

\* ------------------------------------------------ start (HTTP POST route)

ProjectIdRequired == "400 Project ID is required"
TimerRunning == "400 An active timer is already running"
HttpProjectNotFound == "404 Project not found"
Http201 == "201"

\* POST /api/time-entries without its active-timer check
PostOutcomeUnchecked(es, projs, userId, projectId) ==
  IF projectId = "" THEN ProjectIdRequired
  ELSE IF projectId \notin DOMAIN projs THEN HttpProjectNotFound
  ELSE Http201

\* the response of POST /api/time-entries (the project select joins clients;
\* clientId is a non-null foreign key, so every project row has its client)
PostOutcome(es, projs, userId, projectId) ==
  IF projectId = "" THEN ProjectIdRequired
  ELSE IF ActiveIds(es, userId) # {} THEN TimerRunning
  ELSE IF projectId \notin DOMAIN projs THEN HttpProjectNotFound
  ELSE Http201

\* POST /api/time-entries
PostTimeEntry(userId, projectId, description) ==
  LET r == PostOutcome(entries, projects, userId, projectId) IN
  /\ Idle
  /\ r = Http201 => nextId <= MaxEntries
  /\ entries' = IF r = Http201
                THEN Insert(entries, NewActiveEntry(IdNames[nextId], userId, projectId, description, now))
                ELSE entries
  /\ nextId' = IF r = Http201 THEN nextId + 1 ELSE nextId
  /\ last' = Outcome("POST", r)
  /\ UNCHANGED <<projects, now, calls, auth, req, clients>>

\* ------------------------------------------------------------------ stop

NoActiveEntry == "No active time entry found"
Stopped == "stopped"

\* stopTimeTracking ignoring the entryId it is given
StopCandidatesAnyId(es, userId, entryId) == ActiveIds(es, userId)

\* the rows stopTimeTracking selects: the user's active rows, narrowed to
\* entryId when if (entryId) holds
StopCandidates(es, userId, entryId) ==
  {id \in ActiveIds(es, userId) : Truthy(entryId) => id = entryId}

\* set({endTime, durationMinutes, isActive: false}) of stopTimeTracking
StopRow(row, t) ==
  [row EXCEPT !.endTime = Some(t),
              !.durationMinutes = Some(DurationMinutes(row.startTime, t)),
              !.isActive = FALSE]

\* TimeEntryService.stopTimeTracking, called by the stop_time_tracking tool
StopTimeTracking(userId, entryId) ==
  LET found == StopCandidates(entries, userId, entryId) IN
  /\ Idle
  /\ IF found = {}
     THEN /\ entries' = entries
          /\ last' = Outcome("stopTimeTracking", NoActiveEntry)
     ELSE \E id \in found :   \* limit(1)
          /\ entries' = SetFields(entries, id, StopRow(entries[id], now))
          /\ last' = Outcome("stopTimeTracking", Stopped)
  /\ UNCHANGED <<projects, nextId, now, calls, auth, req, clients>>

\* ------------------------------------- PATCH /api/time-entries/active

InvalidAction == "400 Invalid action"
NoActiveTimer == "404 No active timer found"

\* the action === 'stop' branch: the row written
PatchStopRow(row, t) ==
  [row EXCEPT !.endTime = Some(t),
              !.durationMinutes = Some(DurationMinutes(row.startTime, t)),
              !.isActive = FALSE]

\* a pause that keeps the timer open instead of closing it
PatchPauseRowResumable(row, t) == row

\* the action === 'pause' branch: the row written
PatchPauseRow(row, t) ==
  [row EXCEPT !.endTime = Some(t),
              !.durationMinutes = Some(DurationMinutes(row.startTime, t)),
              !.isActive = FALSE]

\* the label of the JSON response: { success: true, action: ... }
PatchLabel(action) == IF action = "stop" THEN "stopped" ELSE "paused"

\* the table after the update of the branch taken for action
PatchTable(es, id, action, t) ==
  SetFields(es, id, IF action = "stop" THEN PatchStopRow(es[id], t)
                                       ELSE PatchPauseRow(es[id], t))

\* PATCH /api/time-entries/active with body { action }
PatchActive(userId, action) ==
  LET found == ActiveIds(entries, userId) IN
  /\ Idle
  /\ IF action # "stop" /\ action # "pause"
     THEN /\ entries' = entries
          /\ last' = Outcome("PATCH", InvalidAction)
     ELSE IF found = {}
     THEN /\ entries' = entries
          /\ last' = Outcome("PATCH", NoActiveTimer)
     ELSE \E id \in found :   \* limit(1)
          /\ entries' = PatchTable(entries, id, action, now)
          /\ last' = Outcome("PATCH", PatchLabel(action))
  /\ UNCHANGED <<projects, nextId, now, calls, auth, req, clients>>

\* ---------------------------------------------------------- manual entry

EndBeforeStart == "End time must be after start time"

\* the outcome of addManualTimeEntry: what it throws, or that it inserts
ManualOutcome(projs, userId, projectId, startTime, endTime) ==
  IF ~ProjectOfUser(projs, projectId, userId) THEN ProjectNotFound
  ELSE IF endTime <= startTime THEN EndBeforeStart
  ELSE Created

\* a manual entry inserted as a running one
NewManualEntryRunning(id, userId, projectId, description, startTime, endTime) ==
  TimeEntry(id, projectId, userId, description, startTime, Some(endTime),
            Some(DurationMinutes(startTime, endTime)), TRUE)

\* the row addManualTimeEntry inserts
NewManualEntry(id, userId, projectId, description, startTime, endTime) ==
  TimeEntry(id, projectId, userId, description, startTime, Some(endTime),
            Some(DurationMinutes(startTime, endTime)), FALSE)

\* TimeEntryService.addManualTimeEntry, called by the add_manual_time_entry tool
AddManualTimeEntry(userId, projectId, description, startTime, endTime) ==
  LET r == ManualOutcome(projects, userId, projectId, startTime, endTime) IN
  /\ Idle
  /\ r = Created => nextId <= MaxEntries
  /\ entries' = IF r = Created
                THEN Insert(entries, NewManualEntry(IdNames[nextId], userId, projectId,
                                                    description, startTime, endTime))
                ELSE entries
  /\ nextId' = IF r = Created THEN nextId + 1 ELSE nextId
  /\ last' = Outcome("addManualTimeEntry", r)
  /\ UNCHANGED <<projects, now, calls, auth, req, clients>>

\* ---------------------------------------------------------------- update

Updated == "updated"
ReturnsNull == "null"

\* what the update_time_entry tool passes on: each field is optional
UpdateData == [description : Descriptions \cup {Undefined},
               startTime : {Null} \cup {Some(t) : t \in InputTimes},
               endTime : {Null} \cup {Some(t) : t \in InputTimes}]

\* a where clause that matches the id alone, whoever owns the row
OwnEntryAnyUser(es, userId, entryId) == entryId \in DOMAIN es

\* where id = entryId and userId = userId
OwnEntry(es, userId, entryId) == entryId \in DOMAIN es /\ es[entryId].userId = userId

\* if (data.startTime || data.endTime)
HasTimeField(data) == ~IsNull(data.startTime) \/ ~IsNull(data.endTime)

\* data.x || currentEntry.x
OrElse(given, current) == IF IsNull(given) THEN current ELSE given

\* an update that writes the passed fields and keeps the stored duration
UpdateRowStaleDuration(row, data) ==
  [row EXCEPT
     !.description = IF data.description = Undefined THEN @ ELSE data.description,
     !.startTime = Val(OrElse(data.startTime, Some(row.startTime))),
     !.endTime = OrElse(data.endTime, row.endTime)]

\* the row after set(updateData): the passed fields, and durationMinutes
\* recomputed when a time field was passed and the end time is known
UpdateRow(row, data) ==
  LET startTime == OrElse(data.startTime, Some(row.startTime))
      endTime == OrElse(data.endTime, row.endTime)
      timeChanged == HasTimeField(data)
  IN [row EXCEPT
        !.description = IF data.description = Undefined THEN @ ELSE data.description,
        !.startTime = Val(startTime),
        !.endTime = endTime,
        !.durationMinutes = IF timeChanged /\ ~IsNull(endTime)
                            THEN Some(DurationMinutes(Val(startTime), Val(endTime)))
                            ELSE @]

\* TimeEntryService.updateTimeEntry, called by the update_time_entry tool:
\* with a time field it selects the user's row first and returns null when
\* there is none; the update ... returning() then yields the row it matched,
\* and updated || null is null when it matched none
UpdateTimeEntry(userId, entryId, data) ==
  /\ Idle
  /\ IF HasTimeField(data) /\ ~OwnEntry(entries, userId, entryId)
     THEN /\ entries' = entries
          /\ last' = Outcome("updateTimeEntry", ReturnsNull)
     ELSE IF OwnEntry(entries, userId, entryId)
     THEN /\ entries' = SetFields(entries, entryId, UpdateRow(entries[entryId], data))
          /\ last' = Outcome("updateTimeEntry", Updated)
     ELSE /\ entries' = entries
          /\ last' = Outcome("updateTimeEntry", ReturnsNull)
  /\ UNCHANGED <<projects, nextId, now, calls, auth, req, clients>>

\* ---------------------------------------------------------------- delete

\* a delete that matches the id alone, whoever owns the row
DeleteRowsAnyUser(es, userId, entryId) ==
  [id \in {i \in DOMAIN es : i # entryId} |-> es[id]]

\* delete(timeEntries).where(id = entryId and userId = userId)
DeleteRows(es, userId, entryId) ==
  [id \in {i \in DOMAIN es : ~(i = entryId /\ es[i].userId = userId)} |-> es[id]]

\* result.rowCount: the number of rows the delete removed
RowCount(before, after) == Cardinality(DOMAIN before) - Cardinality(DOMAIN after)

\* TimeEntryService.deleteTimeEntry: result.rowCount > 0
DeleteTimeEntry(userId, entryId) ==
  LET after == DeleteRows(entries, userId, entryId) IN
  /\ Idle
  /\ entries' = after
  /\ last' = Outcome("deleteTimeEntry",
                     IF RowCount(entries, after) > 0 THEN "true" ELSE "false")
  /\ UNCHANGED <<projects, nextId, now, calls, auth, req, clients>>

\* ------------------------------------------------------------ get active

\* a lookup of the user's rows that leaves out the isActive filter
ActiveEntryResultsAnyRow(es, userId) ==
  IF {id \in DOMAIN es : es[id].userId = userId} = {} THEN {ReturnsNull}
  ELSE {id \in DOMAIN es : es[id].userId = userId}

\* what select ... where userId and isActive ... limit(1) followed by
\* entry || null may return: one of the user's active rows (named by its
\* id), or null when there is none
ActiveEntryResults(es, userId) ==
  IF ActiveIds(es, userId) = {} THEN {ReturnsNull} ELSE ActiveIds(es, userId)

\* TimeEntryService.getActiveTimeEntry, called by the get_active_time_entry tool
GetActiveTimeEntry(userId) ==
  /\ Idle
  /\ \E r \in ActiveEntryResults(entries, userId) :   \* limit(1)
       last' = Outcome("getActiveTimeEntry", r)
  /\ UNCHANGED <<entries, projects, nextId, now, calls, auth, req, clients>>

\* ------------------------------------------------- sequential behaviours

\* an id that names no row
UnknownId == "e0"
\* the entry ids a caller may pass
EntryIdArgs == (DOMAIN entries) \cup {UnknownId}

\* the response reaches the caller
Respond ==
  /\ ~Idle
  /\ last' = NoOutcome
  /\ UNCHANGED <<entries, projects, nextId, now, calls, auth, req, clients>>

\* one request at a time, each handler running to completion
Next ==
  \/ Tick
  \/ Respond
  \/ \E u \in Users, p \in ProjectIds, d \in Descriptions : StartTimeTracking(u, p, d)
  \/ \E u \in Users, p \in ProjectIds \cup {""}, d \in Descriptions : PostTimeEntry(u, p, d)
  \/ \E u \in Users, id \in EntryIdArgs \cup {Undefined, ""} : StopTimeTracking(u, id)
  \/ \E u \in Users, a \in {"stop", "pause", "resume"} : PatchActive(u, a)
  \/ \E u \in Users, p \in ProjectIds, d \in Descriptions, s \in InputTimes, e \in InputTimes :
       AddManualTimeEntry(u, p, d, s, e)
  \/ \E u \in Users, id \in EntryIdArgs, data \in UpdateData : UpdateTimeEntry(u, id, data)
  \/ \E u \in Users, id \in EntryIdArgs : DeleteTimeEntry(u, id)
  \/ \E u \in Users : GetActiveTimeEntry(u)

Spec == Init /\ [][Next]_vars

\* ------------------------------------------------ concurrent start calls
\* Each await of a start handler is one step; steps of different requests
\* interleave.  path "svc" is startTimeTracking (project select, active
\* select, insert), path "http" is POST /api/time-entries (active select,
\* project select, insert).

\* a request arrives
Invoke(c, path, userId, projectId, description) ==
  /\ calls[c].pc = "idle"
  /\ path = "svc" => projectId # ""   \* the tool's schema: projectId min(1)
  /\ calls' = [calls EXCEPT ![c] =
       IF path = "http" /\ projectId = ""
       THEN Call("done", path, userId, projectId, description, ProjectIdRequired)
       ELSE Call(IF path = "svc" THEN "selectProject" ELSE "selectActive",
                 path, userId, projectId, description, "none")]
  /\ UNCHANGED <<entries, projects, nextId, now, last, auth, req, clients>>

\* await db.select().from(projects)...
SelectProject(c) ==
  LET call == calls[c] IN
  /\ call.pc = "selectProject"
  /\ calls' = [calls EXCEPT ![c] =
       IF call.path = "svc"
       THEN IF ProjectOfUser(projects, call.projectId, call.userId)
            THEN [call EXCEPT !.pc = "selectActive"]
            ELSE [call EXCEPT !.pc = "done", !.result = ProjectNotFound]
       ELSE IF call.projectId \in DOMAIN projects
            THEN [call EXCEPT !.pc = "insert"]
            ELSE [call EXCEPT !.pc = "done", !.result = HttpProjectNotFound]]
  /\ UNCHANGED <<entries, projects, nextId, now, last, auth, req, clients>>

\* await db.select().from(timeEntries).where(userId and isActive)
SelectActive(c) ==
  LET call == calls[c]
      active == ActiveIds(entries, call.userId) # {}
  IN
  /\ call.pc = "selectActive"
  /\ calls' = [calls EXCEPT ![c] =
       IF call.path = "svc"
       THEN IF active
            THEN [call EXCEPT !.pc = "done", !.result = ActiveExists]
            ELSE [call EXCEPT !.pc = "insert"]
       ELSE IF active
            THEN [call EXCEPT !.pc = "done", !.result = TimerRunning]
            ELSE [call EXCEPT !.pc = "selectProject"]]
  /\ UNCHANGED <<entries, projects, nextId, now, last, auth, req, clients>>

\* await db.insert(timeEntries).values(...): the table has no constraint
\* on (userId, isActive), so the insert always goes through
InsertEntry(c) ==
  LET call == calls[c] IN
  /\ call.pc = "insert"
  /\ nextId <= MaxEntries
  /\ entries' = Insert(entries, NewActiveEntry(IdNames[nextId], call.userId, call.projectId,
                                               call.description, now))
  /\ nextId' = nextId + 1
  /\ calls' = [calls EXCEPT ![c] =
       [call EXCEPT !.pc = "done", !.result = IF call.path = "svc" THEN Created ELSE Http201]]
  /\ UNCHANGED <<projects, now, last, auth, req, clients>>

NextConc ==
  \/ Tick
  \/ \E c \in Calls, path \in {"svc", "http"}, u \in Users, p \in ProjectIds \cup {""},
        d \in Descriptions : Invoke(c, path, u, p, d)
  \/ \E c \in Calls : SelectProject(c)
  \/ \E c \in Calls : SelectActive(c)
  \/ \E c \in Calls : InsertEntry(c)

SpecConc == Init /\ [][NextConc]_vars

\* ------------------------------------------ durations at ms resolution
\* One user tracks time on one project while the clock moves by arbitrary
\* amounts, and adds and edits entries with timestamps around the half
\* minute: the three computations of durationMinutes on the same inputs.

HalfMinute == MsPerMinute \div 2
\* instants (ms) just below, at and just above half a minute, and at 1.5 min
DurTimes == {0, HalfMinute - 1, HalfMinute, HalfMinute + 1, MsPerMinute + HalfMinute}

\* the time fields an update may carry
UpdateTimes == [description : {Undefined},
                startTime : {Null} \cup {Some(t) : t \in DurTimes},
                endTime : {Null} \cup {Some(t) : t \in DurTimes}]

\* the clock reaches a later instant
Elapse(t) ==
  /\ t > now
  /\ now' = t
  /\ UNCHANGED <<entries, projects, nextId, last, calls, auth, req, clients>>

NextDur ==
  \/ \E t \in DurTimes : Elapse(t)
  \/ Respond
  \/ StartTimeTracking("u1", "p1", "a")
  \/ StopTimeTracking("u1", Undefined)
  \/ \E s \in DurTimes, e \in DurTimes : AddManualTimeEntry("u1", "p1", "a", s, e)
  \/ \E id \in EntryIdArgs, data \in UpdateTimes : UpdateTimeEntry("u1", id, data)

SpecDur == Init /\ [][NextDur]_vars

\* ---------------------------------------------------------- authorization
\* The role-based checks of src/lib/authorization/types.ts.  A string whose
\* letters matter (a role name) is the sequence of its characters.

\* enum UserRole
USER == "user"
HR == "hr"
MANAGER == "manager"
ADMIN == "admin"

\* enum Permission
VIEW_ALL_TIMESHEETS == "view_all_timesheets"
VIEW_USER_TIMESHEETS == "view_user_timesheets"
MANAGE_USERS == "manage_users"
VIEW_ALL_REPORTS == "view_all_reports"
Permissions == {VIEW_ALL_TIMESHEETS, VIEW_USER_TIMESHEETS, MANAGE_USERS, VIEW_ALL_REPORTS}

\* const RolePermissions: Record<UserRole, Permission[]>
RolePermissions ==
  (USER :> <<>>) @@
  (HR :> <<VIEW_ALL_TIMESHEETS, VIEW_ALL_REPORTS>>) @@
  (MANAGER :> <<VIEW_USER_TIMESHEETS>>) @@
  (ADMIN :> <<VIEW_ALL_TIMESHEETS, VIEW_ALL_REPORTS, MANAGE_USERS>>)

\* Array.prototype.includes
Includes(array, x) == \E i \in DOMAIN array : array[i] = x

\* Array.prototype.join, as the pieces of the resulting string
Join(array, separator) ==
  [i \in 1..(2 * Len(array) - 1) |->
     IF i % 2 = 1 THEN array[(i + 1) \div 2] ELSE separator]

LowerLetters == <<"a", "b", "c", "d", "e", "f", "g", "h", "i", "j", "k", "l", "m",
                  "n", "o", "p", "q", "r", "s", "t", "u", "v", "w", "x", "y", "z">>
UpperLetters == <<"A", "B", "C", "D", "E", "F", "G", "H", "I", "J", "K", "L", "M",
                  "N", "O", "P", "Q", "R", "S", "T", "U", "V", "W", "X", "Y", "Z">>

\* String.prototype.toLowerCase
ToLowerCase(chars) ==
  [i \in DOMAIN chars |->
     IF \E k \in DOMAIN UpperLetters : UpperLetters[k] = chars[i]
     THEN LowerLetters[CHOOSE k \in DOMAIN UpperLetters : UpperLetters[k] = chars[i]]
     ELSE chars[i]]

\* the case labels of parseUserRole
HrChars == <<"h", "r">>
ManagerChars == <<"m", "a", "n", "a", "g", "e", "r">>
AdminChars == <<"a", "d", "m", "i", "n">>
UserChars == <<"u", "s", "e", "r">>

\* a role string as parseUserRole receives it: a string or null
StringValue(chars) == [kind |-> "string", chars |-> chars]
NullValue == [kind |-> "null", chars |-> <<>>]

\* a parseUserRole that compares the string as it is written
parseUserRoleCaseSensitive(roleString) ==
  IF roleString.kind # "string" \/ roleString.chars = <<>> THEN USER
  ELSE LET normalized == roleString.chars IN
       IF normalized = HrChars THEN HR
       ELSE IF normalized = ManagerChars THEN MANAGER
       ELSE IF normalized = AdminChars THEN ADMIN
       ELSE USER

\* parseUserRole: USER for a falsy role string, else the switch over the
\* lower-cased string with USER as its default
parseUserRole(roleString) ==
  IF roleString.kind # "string" \/ roleString.chars = <<>> THEN USER
  ELSE LET normalized == ToLowerCase(roleString.chars) IN
       IF normalized = HrChars THEN HR
       ELSE IF normalized = ManagerChars THEN MANAGER
       ELSE IF normalized = AdminChars THEN ADMIN
       ELSE USER

\* createAuthorizationContext: the roles argument as an array, each item
\* parsed, [USER] for an empty array
createAuthorizationContext(userId, roles, metadata) ==
  LET roleArray == IF roles.kind = "array" THEN roles.items
                   ELSE IF roles.kind = "string" THEN <<StringValue(roles.chars)>>
                   ELSE <<>>
      parsedRoles == IF Len(roleArray) > 0
                     THEN [i \in DOMAIN roleArray |-> parseUserRole(roleArray[i])]
                     ELSE <<USER>>
  IN [userId |-> userId, roles |-> parsedRoles, metadata |-> metadata]

TypeError == "TypeError"

\* a hasPermission that looks at the first role only
hasPermissionFirstRole(context, permission) ==
  IF context.roles = <<>> THEN "false"
  ELSE IF context.roles[1] \notin DOMAIN RolePermissions THEN TypeError
  ELSE IF Includes(RolePermissions[context.roles[1]], permission) THEN "true"
  ELSE "false"

\* a hasPermission that wants the permission from every role
hasPermissionEveryRole(context, permission) ==
  IF \E i \in DOMAIN context.roles : context.roles[i] \notin DOMAIN RolePermissions
  THEN TypeError
  ELSE IF \A i \in DOMAIN context.roles :
            Includes(RolePermissions[context.roles[i]], permission)
  THEN "true"
  ELSE "false"

\* hasPermission: the loop over context.roles stops at the first role that
\* grants the permission; RolePermissions[role] is undefined for a role
\* outside the enum, and .includes on it throws
hasPermission(context, permission) ==
  LET roles == context.roles
      stops == {i \in DOMAIN roles :
                  \/ roles[i] \notin DOMAIN RolePermissions
                  \/ Includes(RolePermissions[roles[i]], permission)}
  IN IF stops = {} THEN "false"
     ELSE LET first == CHOOSE i \in stops : \A j \in stops : i <= j IN
          IF roles[first] \notin DOMAIN RolePermissions THEN TypeError ELSE "true"

\* `User with roles [${context.roles.join(', ')}] ...`
WithRoles(context, rest) == <<"User with roles [">> \o Join(context.roles, ", ") \o rest

\* a canViewAllTimesheets that gives a reason whatever the outcome
canViewAllTimesheetsAlwaysReason(context) ==
  LET authorized == hasPermission(context, VIEW_ALL_TIMESHEETS) IN
  IF authorized = TypeError THEN Threw
  ELSE AuthorizationResult(authorized = "true",
         Some(WithRoles(context, <<"] does not have permission to view all timesheets">>)))

\* canViewAllTimesheets
canViewAllTimesheets(context) ==
  LET authorized == hasPermission(context, VIEW_ALL_TIMESHEETS) IN
  IF authorized = TypeError THEN Threw
  ELSE AuthorizationResult(authorized = "true",
         IF authorized = "true" THEN Null
         ELSE Some(WithRoles(context, <<"] does not have permission to view all timesheets">>)))

\* context.metadata?.directReports || []
DirectReports(context) ==
  IF context.metadata.defined /\ ~IsNull(context.metadata.directReports)
  THEN Val(context.metadata.directReports)
  ELSE <<>>

\* a canViewUserTimesheets that lets a manager view every user
canViewUserTimesheetsAnyReport(context, targetUserId) ==
  LET viewAll == hasPermission(context, VIEW_ALL_TIMESHEETS)
      viewUser == hasPermission(context, VIEW_USER_TIMESHEETS)
  IN IF context.userId = targetUserId THEN AuthorizationResult(TRUE, Null)
     ELSE IF viewAll = TypeError THEN Threw
     ELSE IF viewAll = "true" THEN AuthorizationResult(TRUE, Null)
     ELSE IF viewUser = TypeError THEN Threw
     ELSE IF viewUser = "true" THEN AuthorizationResult(TRUE, Null)
     ELSE AuthorizationResult(FALSE,
            Some(WithRoles(context, <<"] cannot view timesheets for user ", targetUserId>>)))

\* canViewUserTimesheets
canViewUserTimesheets(context, targetUserId) ==
  LET viewAll == hasPermission(context, VIEW_ALL_TIMESHEETS)
      viewUser == hasPermission(context, VIEW_USER_TIMESHEETS)
  IN IF context.userId = targetUserId THEN AuthorizationResult(TRUE, Null)
     ELSE IF viewAll = TypeError THEN Threw
     ELSE IF viewAll = "true" THEN AuthorizationResult(TRUE, Null)
     ELSE IF viewUser = TypeError THEN Threw
     ELSE IF viewUser = "true"
     THEN IF Includes(DirectReports(context), targetUserId)
          THEN AuthorizationResult(TRUE, Null)
          ELSE AuthorizationResult(FALSE,
                 Some(<<"User ", targetUserId, " is not in the manager's direct reports">>))
     ELSE AuthorizationResult(FALSE,
            Some(WithRoles(context, <<"] cannot view timesheets for user ", targetUserId>>)))

\* a canViewReports whose filter leaves out id !== context.userId
canViewReportsSelfUnlisted(context, targetUserIds) ==
  IF IsNull(targetUserIds) THEN AuthorizationResult(TRUE, Null)
  ELSE LET ids == Val(targetUserIds)
           viewAll == hasPermission(context, VIEW_ALL_TIMESHEETS)
           viewUser == hasPermission(context, VIEW_USER_TIMESHEETS)
           unauthorizedUsers ==
             SelectSeq(ids, LAMBDA id : ~Includes(DirectReports(context), id))
       IN IF Len(ids) = 0 THEN AuthorizationResult(TRUE, Null)
          ELSE IF ~(\E i \in DOMAIN ids : ids[i] # context.userId)
          THEN AuthorizationResult(TRUE, Null)
          ELSE IF viewAll = TypeError THEN Threw
          ELSE IF viewAll = "true" THEN AuthorizationResult(TRUE, Null)
          ELSE IF viewUser = TypeError THEN Threw
          ELSE IF viewUser = "true"
          THEN IF Len(unauthorizedUsers) = 0
               THEN AuthorizationResult(TRUE, Null)
               ELSE AuthorizationResult(FALSE,
                      Some(<<"Cannot view reports for users: ">>
                           \o Join(unauthorizedUsers, ", ")))
          ELSE AuthorizationResult(FALSE,
                 Some(WithRoles(context, <<"] cannot view reports for other users">>)))

\* a canViewReports that looks a manager's first requested id up only
canViewReportsFirstId(context, targetUserIds) ==
  IF IsNull(targetUserIds) THEN AuthorizationResult(TRUE, Null)
  ELSE LET ids == Val(targetUserIds)
           viewAll == hasPermission(context, VIEW_ALL_TIMESHEETS)
           viewUser == hasPermission(context, VIEW_USER_TIMESHEETS)
           unauthorizedUsers ==
             SelectSeq(SubSeq(ids, 1, 1),
                       LAMBDA id : id # context.userId
                                   /\ ~Includes(DirectReports(context), id))
       IN IF Len(ids) = 0 THEN AuthorizationResult(TRUE, Null)
          ELSE IF ~(\E i \in DOMAIN ids : ids[i] # context.userId)
          THEN AuthorizationResult(TRUE, Null)
          ELSE IF viewAll = TypeError THEN Threw
          ELSE IF viewAll = "true" THEN AuthorizationResult(TRUE, Null)
          ELSE IF viewUser = TypeError THEN Threw
          ELSE IF viewUser = "true"
          THEN IF Len(unauthorizedUsers) = 0
               THEN AuthorizationResult(TRUE, Null)
               ELSE AuthorizationResult(FALSE,
                      Some(<<"Cannot view reports for users: ">>
                           \o Join(unauthorizedUsers, ", ")))
          ELSE AuthorizationResult(FALSE,
                 Some(WithRoles(context, <<"] cannot view reports for other users">>)))

\* canViewReports; targetUserIds is Null when the argument is undefined
canViewReports(context, targetUserIds) ==
  IF IsNull(targetUserIds) THEN AuthorizationResult(TRUE, Null)
  ELSE LET ids == Val(targetUserIds)
           viewAll == hasPermission(context, VIEW_ALL_TIMESHEETS)
           viewUser == hasPermission(context, VIEW_USER_TIMESHEETS)
           unauthorizedUsers ==
             SelectSeq(ids, LAMBDA id : id # context.userId
                                        /\ ~Includes(DirectReports(context), id))
       IN IF Len(ids) = 0 THEN AuthorizationResult(TRUE, Null)
          ELSE IF ~(\E i \in DOMAIN ids : ids[i] # context.userId)
          THEN AuthorizationResult(TRUE, Null)
          ELSE IF viewAll = TypeError THEN Threw
          ELSE IF viewAll = "true" THEN AuthorizationResult(TRUE, Null)
          ELSE IF viewUser = TypeError THEN Threw
          ELSE IF viewUser = "true"
          THEN IF Len(unauthorizedUsers) = 0
               THEN AuthorizationResult(TRUE, Null)
               ELSE AuthorizationResult(FALSE,
                      Some(<<"Cannot view reports for users: ">>
                           \o Join(unauthorizedUsers, ", ")))
          ELSE AuthorizationResult(FALSE,
                 Some(WithRoles(context, <<"] cannot view reports for other users">>)))

\* ---- the inputs of the authorization checks

\* the sequences over S of length at most n
SeqsUpTo(S, n) == UNION {[1..k -> S] : k \in 0..n}

\* user ids: a principal "m", and users "u1" and "u9" who may report to it
AuthIds == {"m", "u1", "u9"}
Principals == {"m", "u1"}

\* role strings as they may arrive: the four names in some casing, a string
\* that names no role, and the empty string
RoleStrings == {HrChars, <<"H", "R">>, <<"M", "a", "n", "a", "g", "e", "r">>,
                <<"A", "D", "M", "I", "N">>, UserChars,
                <<"b", "o", "g", "u", "s">>, <<>>}

\* the items of a roles array: role strings, or a null that slipped in
RoleItems == {StringValue(c) : c \in RoleStrings} \cup {NullValue}

RolesInputs ==
  {RolesInput("null", <<>>, <<>>), RolesInput("undefined", <<>>, <<>>)}
    \cup {RolesInput("string", c, <<>>) : c \in RoleStrings}
    \cup {RolesInput("array", <<>>, a) : a \in SeqsUpTo(RoleItems, MaxRoles)}

MetadataInputs ==
  {Metadata(FALSE, Null), Metadata(TRUE, Null)}
    \cup {Metadata(TRUE, Some(l)) : l \in SeqsUpTo(AuthIds, MaxIds)}

\* undefined, or an array of user ids
TargetIdsInputs == {Null} \cup {Some(l) : l \in SeqsUpTo(AuthIds, MaxIds)}

\* ---- the calls

\* a caller builds its context
BuildContext(userId, roles, metadata) ==
  /\ ~auth.built
  /\ auth' = [auth EXCEPT !.built = TRUE, !.input = roles,
                          !.context = createAuthorizationContext(userId, roles, metadata)]
  /\ UNCHANGED <<entries, projects, nextId, now, last, calls, req, clients>>

\* the context is built and no check was made on it yet
Unchecked == auth.built /\ auth.op = "none"

\* hasPermission(context, permission): the boolean it returns is kept in the
\* authorized field
CheckPermission(permission) ==
  LET r == hasPermission(auth.context, permission) IN
  /\ Unchecked
  /\ auth' = [auth EXCEPT !.op = "hasPermission", !.permission = permission,
                          !.result = IF r = TypeError THEN Threw
                                     ELSE AuthorizationResult(r = "true", Null)]
  /\ UNCHANGED <<entries, projects, nextId, now, last, calls, req, clients>>

CheckViewAllTimesheets ==
  /\ Unchecked
  /\ auth' = [auth EXCEPT !.op = "canViewAllTimesheets",
                          !.result = canViewAllTimesheets(auth.context)]
  /\ UNCHANGED <<entries, projects, nextId, now, last, calls, req, clients>>

CheckViewUserTimesheets(targetUserId) ==
  /\ Unchecked
  /\ auth' = [auth EXCEPT !.op = "canViewUserTimesheets", !.targetUserId = targetUserId,
                          !.result = canViewUserTimesheets(auth.context, targetUserId)]
  /\ UNCHANGED <<entries, projects, nextId, now, last, calls, req, clients>>

CheckViewReports(targetUserIds) ==
  /\ Unchecked
  /\ auth' = [auth EXCEPT !.op = "canViewReports", !.targetUserIds = targetUserIds,
                          !.result = canViewReports(auth.context, targetUserIds)]
  /\ UNCHANGED <<entries, projects, nextId, now, last, calls, req, clients>>

NextAuth ==
  \/ \E u \in Principals, roles \in RolesInputs, metadata \in MetadataInputs :
       BuildContext(u, roles, metadata)
  \/ \E permission \in Permissions : CheckPermission(permission)
  \/ CheckViewAllTimesheets
  \/ \E t \in AuthIds : CheckViewUserTimesheets(t)
  \/ \E ts \in TargetIdsInputs : CheckViewReports(ts)

SpecAuth == Init /\ [][NextAuth]_vars

\* ============================== the time-entry listing (GET /api/time-entries)

\* the default page size, Number(searchParams.get("limit")) || 10
DefaultLimit == 10

\* a user id as the characters of a query string
UserIdChars(u) ==
  IF u = "u1" THEN <<"u", "1">> ELSE IF u = "u2" THEN <<"u", "2">> ELSE <<"u", "9">>

AllChars == <<"a", "l", "l">>

\* the users query parameter: null when absent, else its characters
UserFilters ==
  {Null, Some(<<>>), Some(AllChars), Some(<<"A", "l", "l">>),
   Some(<<"u", "1">>), Some(<<"u", "2">>),
   Some(<<"u", "1", ",", "u", "2">>), Some(<<" ", "u", "2", " ", ",">>),
   Some(<<",">>), Some(<<" ">>)}

\* the role getAuthenticatedUser would report for the principal: null or a
\* role string
PrincipalRoles ==
  {NullValue} \cup {StringValue(c) : c \in {UserChars, HrChars, ManagerChars, AdminChars}}

RECURSIVE Split(_, _)
\* chars.split(separator): the pieces between separators, empty ones kept
Split(chars, separator) ==
  IF \A i \in DOMAIN chars : chars[i] # separator THEN <<chars>>
  ELSE LET k == CHOOSE i \in DOMAIN chars :
                  chars[i] = separator /\ \A j \in 1..(i - 1) : chars[j] # separator
       IN <<SubSeq(chars, 1, k - 1)>> \o Split(SubSeq(chars, k + 1, Len(chars)), separator)

RECURSIVE Trim(_)
\* chars.trim()
Trim(chars) ==
  IF chars # <<>> /\ Head(chars) = " " THEN Trim(Tail(chars))
  ELSE IF chars # <<>> /\ chars[Len(chars)] = " " THEN Trim(SubSeq(chars, 1, Len(chars) - 1))
  ELSE chars

\* userFilter.split(',').map(id => id.trim()).filter(Boolean)
FilterIds(chars) ==
  LET pieces == Split(chars, ",")
      trimmed == [i \in DOMAIN pieces |-> Trim(pieces[i])]
  IN SelectSeq(trimmed, LAMBDA id : id # <<>>)

\* the conditions the user filter pushes, each the set of user ids it admits:
\* none for "all", eq / inArray over the ids of a non-empty filter (none when
\* no id is left), and eq(userId) when the filter is absent or empty
UserConditions(userId, userFilter) ==
  IF userFilter = Some(AllChars) THEN <<>>
  ELSE IF ~IsNull(userFilter) /\ Val(userFilter) # <<>>
  THEN LET userIds == FilterIds(Val(userFilter)) IN
       IF Len(userIds) = 1 THEN <<{userIds[1]}>>
       ELSE IF Len(userIds) > 1 THEN <<{userIds[i] : i \in DOMAIN userIds}>>
       ELSE <<>>
  ELSE <<{UserIdChars(userId)}>>

\* the rows of time_entries joined to their project and client that satisfy
\* and(...conditions)
ListedRows(es, projs, cls, conditions) ==
  {es[id] : id \in {i \in DOMAIN es :
     /\ es[i].projectId \in DOMAIN projs
     /\ projs[es[i].projectId].clientId \in DOMAIN cls
     /\ \A c \in DOMAIN conditions : UserIdChars(es[i].userId) \in conditions[c]}}

\* the pages .limit(limit).offset(0) may return from the matching rows
Pages(rows, limit) ==
  {page \in SUBSET rows :
     Cardinality(page) = IF Cardinality(rows) < limit THEN Cardinality(rows) ELSE limit}

\* GET /api/time-entries?users=userFilter by the principal userId, whose role
\* the handler does not read (getUserIdOrThrow returns the id alone); the
\* other filters absent
ListTimeEntries(userId, role, userFilter) ==
  LET rows == ListedRows(entries, projects, clients, UserConditions(userId, userFilter)) IN
  /\ Idle
  /\ \E page \in Pages(rows, DefaultLimit) :
       req' = [op |-> "list", userId |-> userId, role |-> role, userFilter |-> userFilter,
               status |-> 200, entries |-> page, total |-> Cardinality(rows)]
  /\ UNCHANGED <<entries, projects, nextId, now, last, calls, auth, clients>>

NextList ==
  \/ \E u \in Users, p \in DOMAIN projects : StartTimeTracking(u, p, "a")
  \/ \E u \in Users, p \in DOMAIN projects :
       AddManualTimeEntry(u, p, "a", 0, MsPerMinute + MsPerMinute \div 2)
  \/ Respond
  \/ \E u \in Users, role \in PrincipalRoles, userFilter \in UserFilters :
       ListTimeEntries(u, role, userFilter)

SpecList == Init /\ [][NextList]_vars

\* ===================================== the report functions (services/reports)

MsPerDay == 24 * 60 * MsPerMinute

\* days and months the reports look back by default
DefaultDays == 14
DefaultMonths == 6

\* dates as day numbers, day 0 being 1 January 1970 (UTC), a Thursday; the
\* clock stays within that month. Every lower limit of a report is a
\* midnight (setHours(0, 0, 0, 0)), so it is kept as the number of its day
Day(t) == t \div MsPerDay
StartOfMonth(t) == 0
StartOfWeek(t) == Day(t) - ((Day(t) + 4) % 7)
DaysBack(t, days) == Day(t) - (days - 1)
MonthsBack(t, months) == StartOfMonth(t) - (months - 1) * 31

\* ReportQueryOptions; a missing options argument has both fields undefined
ReportQueryOptions(targetUserId, targetUserIds) ==
  [targetUserId |-> targetUserId, targetUserIds |-> targetUserIds]

RECURSIVE SumMinutes(_, _)
\* sum(durationMinutes) over the rows ids
SumMinutes(es, ids) ==
  IF ids = {} THEN 0
  ELSE LET i == CHOOSE x \in ids : TRUE
       IN Val(es[i].durationMinutes) + SumMinutes(es, ids \ {i})

\* (minutes / 60).toFixed(2), in hundredths of an hour
HoursFixed2(minutes) == MathRound(minutes * 100, 60)

\* getDashboardSummary: queryUserId = options?.targetUserId || userId
DashboardQueryUsers(userId, options) ==
  IF ~IsNull(options.targetUserId) /\ Val(options.targetUserId) # ""
  THEN {Val(options.targetUserId)}
  ELSE {userId}

\* the user condition of getDailyHours, getHoursByProjectCurrentMonth and
\* getMonthlyBilledHours, as the set of user ids it admits
ReportQueryUsers(userId, options) ==
  IF ~IsNull(options.targetUserIds) /\ Len(Val(options.targetUserIds)) > 0
  THEN {Val(options.targetUserIds)[i] : i \in DOMAIN Val(options.targetUserIds)}
  ELSE IF ~IsNull(options.targetUserId) /\ Val(options.targetUserId) # ""
  THEN {Val(options.targetUserId)}
  ELSE {userId}

\* the rows of the queried users that start on the day since or later and
\* have a duration: ... AND duration_minutes IS NOT NULL
ReportRows(es, users, since) ==
  {id \in DOMAIN es :
     /\ es[id].userId \in users
     /\ Day(es[id].startTime) >= since
     /\ ~IsNull(es[id].durationMinutes)}

\* getDashboardSummary: the last start time, and the hours of the month so
\* far, of this week and of the week before it
getDashboardSummary(es, t, userId, options) ==
  LET users == DashboardQueryUsers(userId, options)
      own == {id \in DOMAIN es : es[id].userId \in users}
      month == {id \in ReportRows(es, users, StartOfMonth(t)) : es[id].startTime <= t}
      week == ReportRows(es, users, StartOfWeek(t))
      prevWeek == {id \in ReportRows(es, users, StartOfWeek(t) - 7) :
                     Day(es[id].startTime) < StartOfWeek(t)}
  IN [lastActivity |-> IF own = {} THEN Null
                       ELSE Some(CHOOSE s \in {es[id].startTime : id \in own} :
                                   \A id \in own : es[id].startTime <= s),
      totalHours |-> HoursFixed2(SumMinutes(es, month)),
      weeklyHours |-> HoursFixed2(SumMinutes(es, week)),
      prevWeekMinutes |-> SumMinutes(es, prevWeek)]

\* getDailyHours: one row per day that has rows, with the minutes of the day
getDailyHours(es, t, userId, days, options) ==
  LET rows == ReportRows(es, ReportQueryUsers(userId, options), DaysBack(t, days))
  IN {[day |-> d,
       minutes |-> SumMinutes(es, {id \in rows : Day(es[id].startTime) = d})]
        : d \in {Day(es[id].startTime) : id \in rows}}

\* getHoursByProjectCurrentMonth: one row per project that has rows
getHoursByProjectCurrentMonth(es, projs, t, userId, options) ==
  LET rows == {id \in ReportRows(es, ReportQueryUsers(userId, options), StartOfMonth(t)) :
                 es[id].projectId \in DOMAIN projs}
  IN {[projectId |-> p, minutes |-> SumMinutes(es, {id \in rows : es[id].projectId = p})]
        : p \in {es[id].projectId : id \in rows}}

\* getMonthlyBilledHours: one row per month that has rows
getMonthlyBilledHours(es, t, userId, months, options) ==
  LET rows == ReportRows(es, ReportQueryUsers(userId, options), MonthsBack(t, months))
  IN {[month |-> m,
       minutes |-> SumMinutes(es, {id \in rows : StartOfMonth(es[id].startTime) = m})]
        : m \in {StartOfMonth(es[id].startTime) : id \in rows}}

ReportFunctions ==
  {"getDashboardSummary", "getDailyHours", "getHoursByProjectCurrentMonth",
   "getMonthlyBilledHours"}

\* the users a report function queries, and what it returns
QueriedUsers(fn, userId, options) ==
  IF fn = "getDashboardSummary" THEN DashboardQueryUsers(userId, options)
  ELSE ReportQueryUsers(userId, options)

ReportData(fn, es, projs, t, userId, options) ==
  IF fn = "getDashboardSummary" THEN getDashboardSummary(es, t, userId, options)
  ELSE IF fn = "getDailyHours" THEN getDailyHours(es, t, userId, DefaultDays, options)
  ELSE IF fn = "getHoursByProjectCurrentMonth"
  THEN getHoursByProjectCurrentMonth(es, projs, t, userId, options)
  ELSE getMonthlyBilledHours(es, t, userId, DefaultMonths, options)

\* user ids as the reports receive them; "u9" has no entries
ReportIds == {"u1", "u2", "u9"}

OptionsInputs ==
  {ReportQueryOptions(one, many) :
     one \in {Null, Some(""), Some("u2"), Some("u9")},
     many \in {Null, Some(<<>>), Some(<<"u1">>), Some(<<"u2", "u1">>)}}

\* no request is being served and no response is on its way
Quiet == Idle /\ req = NoReq

\* the response of a read request reaches its caller
Reply ==
  /\ req # NoReq
  /\ req' = NoReq
  /\ UNCHANGED <<entries, projects, nextId, now, last, calls, auth, clients>>

\* a caller runs a report function with the options it built
CallReport(fn, userId, options) ==
  /\ Quiet
  /\ req' = [op |-> "report", fn |-> fn, userId |-> userId, options |-> options,
             queried |-> QueriedUsers(fn, userId, options),
             data |-> ReportData(fn, entries, projects, now, userId, options)]
  /\ UNCHANGED <<entries, projects, nextId, now, last, calls, auth, clients>>

\* ================================ the daily report route (GET /api/reports/daily)

\* the user id a query string spells
UserIdOf(chars) ==
  IF chars = <<"u", "1">> THEN "u1"
  ELSE IF chars = <<"u", "2">> THEN "u2"
  ELSE IF chars = <<"u", "9">> THEN "u9"
  ELSE "unknown"

\* targetUserIds: the ids of the userIds parameter, else the userId
\* parameter alone, else undefined
DailyTargets(userIdParam, userIdsParam) ==
  IF ~IsNull(userIdsParam) /\ Val(userIdsParam) # <<>>
  THEN LET ids == FilterIds(Val(userIdsParam)) IN
       Some([i \in DOMAIN ids |-> UserIdOf(ids[i])])
  ELSE IF ~IsNull(userIdParam) /\ Val(userIdParam) # <<>>
  THEN Some(<<UserIdOf(Val(userIdParam))>>)
  ELSE Null

\* a loop over the targets that keeps the last denial
LastDenial(context, targetUserIds) ==
  LET denied == {i \in DOMAIN targetUserIds :
                   /\ targetUserIds[i] # context.userId
                   /\ ~canViewUserTimesheets(context, targetUserIds[i]).authorized}
  IN IF denied = {} THEN Null
     ELSE Some(canViewUserTimesheets(context,
                 targetUserIds[CHOOSE i \in denied : \A j \in denied : j <= i]))

\* the loop over the targets: the result of the first check that is not
\* authorized, the principal's own id skipped; null when every check passes
FirstDenial(context, targetUserIds) ==
  LET denied == {i \in DOMAIN targetUserIds :
                   /\ targetUserIds[i] # context.userId
                   /\ ~canViewUserTimesheets(context, targetUserIds[i]).authorized}
  IN IF denied = {} THEN Null
     ELSE Some(canViewUserTimesheets(context,
                 targetUserIds[CHOOSE i \in denied : \A j \in denied : i <= j]))

\* the response of the route: its status, the reason of a 403, and the
\* options of the getDailyHours call it made, if it made one
DailyResponse(status, reason, options) ==
  [status |-> status, reason |-> reason, options |-> options]

DailyRoute(userId, role, userIdParam, userIdsParam) ==
  LET targetUserIds == DailyTargets(userIdParam, userIdsParam)
      authContext == createAuthorizationContext(userId,
                       IF role.kind = "string" THEN RolesInput("string", role.chars, <<>>)
                       ELSE RolesInput("null", <<>>, <<>>),
                       Metadata(FALSE, Null))
  IN IF ~IsNull(targetUserIds)
        /\ \E i \in DOMAIN Val(targetUserIds) : Val(targetUserIds)[i] # userId
     THEN IF canViewAllTimesheets(authContext).authorized
          THEN DailyResponse(200, Null, Some(ReportQueryOptions(Null, targetUserIds)))
          ELSE LET denial == FirstDenial(authContext, Val(targetUserIds)) IN
               IF ~IsNull(denial)
               THEN DailyResponse(403, Val(denial).reason, Null)
               ELSE DailyResponse(200, Null, Some(ReportQueryOptions(Null, targetUserIds)))
     ELSE DailyResponse(200, Null, Some(ReportQueryOptions(Null, Null)))

\* the userId and userIds query parameters: null when absent
UserIdParams == {Null, Some(<<"u", "2">>)}
UserIdsParams ==
  {Null, Some(<<",">>), Some(<<"u", "1">>), Some(<<"u", "2">>),
   Some(<<"u", "1", ",", "u", "2">>), Some(<<"u", "2", ",", " ", "u", "9">>),
   Some(<<"u", "9", ",", "u", "1", ",", "u", "2">>)}

\* GET /api/reports/daily by the principal getAuthenticatedUser reports
DailyReport(userId, role, userIdParam, userIdsParam) ==
  LET r == DailyRoute(userId, role, userIdParam, userIdsParam) IN
  /\ Quiet
  /\ req' = [op |-> "daily", userId |-> userId, role |-> role,
             targetUserIds |-> DailyTargets(userIdParam, userIdsParam),
             status |-> r.status, reason |-> r.reason,
             queried |-> IF IsNull(r.options) THEN Null
                         ELSE Some(ReportQueryUsers(userId, Val(r.options))),
             data |-> IF IsNull(r.options) THEN Null
                      ELSE Some(getDailyHours(entries, now, userId, DefaultDays,
                                              Val(r.options)))]
  /\ UNCHANGED <<entries, projects, nextId, now, last, calls, auth, clients>>

NextReports ==
  \/ \E u \in Users, p \in DOMAIN projects : req = NoReq /\ StartTimeTracking(u, p, "a")
  \/ \E u \in Users : req = NoReq /\ StopTimeTracking(u, Undefined)
  \/ \E u \in Users, p \in DOMAIN projects :
       req = NoReq /\ AddManualTimeEntry(u, p, "a", 0, MsPerMinute + MsPerMinute \div 2)
  \/ req = NoReq /\ Tick
  \/ Respond
  \/ Reply
  \/ \E fn \in ReportFunctions, u \in Users, options \in OptionsInputs :
       CallReport(fn, u, options)
  \/ \E u \in Users, role \in PrincipalRoles, one \in UserIdParams, many \in UserIdsParams :
       DailyReport(u, role, one, many)

SpecReports == Init /\ [][NextReports]_vars

\* ============================ the role of a principal (authUtils, MCP handler)

\* an undefined role, as userInfo.role is when the proxy asserts none
UndefinedValue == [kind |-> "undefined", chars |-> <<>>]

\* what a proxy asserts about the user: userInfo.role and userInfo.roles
\* (undefined when items is null)
UserInfo(role, roles) == [role |-> role, roles |-> roles]

\* a || b on role values: a unless it is null, undefined or the empty string
OrElseRole(a, b) == IF a.kind = "string" /\ a.chars # <<>> THEN a ELSE b

\* userInfo?.role || (userInfo?.roles && userInfo.roles.length > 0
\*                      ? userInfo.roles[0] : null)
ClaimedRole(userInfo) ==
  OrElseRole(userInfo.role,
             IF ~IsNull(userInfo.roles) /\ Len(Val(userInfo.roles)) > 0
             THEN Val(userInfo.roles)[1]
             ELSE NullValue)

\* a getAuthenticatedUser that reads the database role before the claim
getAuthenticatedUserStoredFirst(proxy, storedRole) ==
  IF ~IsNull(proxy) THEN OrElseRole(storedRole, ClaimedRole(Val(proxy)))
  ELSE storedRole

\* getAuthenticatedUser: the role it returns. proxy is null unless the proxy
\* mode is on and authenticateViaProxy succeeded; the session path then
\* returns the database role
getAuthenticatedUser(proxy, storedRole) ==
  IF ~IsNull(proxy) THEN OrElseRole(ClaimedRole(Val(proxy)), storedRole)
  ELSE storedRole

\* universalHandler: the role it hands to createHandlerForUser. The API key
\* is looked at first; then the proxy; then the session
universalHandler(apiKey, proxy, storedRole) ==
  IF apiKey = "valid" THEN StringValue(AdminChars)
  ELSE IF ~IsNull(proxy)
  THEN LET userRole == ClaimedRole(Val(proxy)) IN
       IF userRole.kind = "string" /\ userRole.chars # <<>> THEN userRole
       ELSE OrElseRole(storedRole, NullValue)
  ELSE OrElseRole(storedRole, NullValue)

\* the x-api-key / authorization header: absent, another value (a bearer
\* token of the session, a wrong key), or the configured MCP_API_KEY
ApiKeys == {"absent", "other", "valid"}

\* role strings as a proxy asserts or the database stores them
ClaimStrings == {<<>>, HrChars, <<"A", "d", "m", "i", "n">>, <<"b", "o", "g", "u", "s">>}
StoredRoles ==
  {NullValue} \cup {StringValue(c) : c \in {<<>>, UserChars, ManagerChars, AdminChars}}

ProxyInputs ==
  {Null} \cup
  {Some(UserInfo(role, roles)) :
     role \in {UndefinedValue} \cup {StringValue(c) : c \in ClaimStrings},
     roles \in {Null} \cup
               {Some(a) : a \in SeqsUpTo({StringValue(c) : c \in ClaimStrings}, MaxRoles)}}

\* an HTTP route asks getAuthenticatedUser for its principal
HttpSignIn(proxy, storedRole) ==
  /\ Quiet
  /\ req' = [op |-> "getAuthenticatedUser", apiKey |-> "absent", proxy |-> proxy,
             storedRole |-> storedRole, role |-> getAuthenticatedUser(proxy, storedRole)]
  /\ UNCHANGED <<entries, projects, nextId, now, last, calls, auth, clients>>

\* an MCP request reaches the universal handler
McpSignIn(apiKey, proxy, storedRole) ==
  /\ Quiet
  /\ req' = [op |-> "universalHandler", apiKey |-> apiKey, proxy |-> proxy,
             storedRole |-> storedRole, role |-> universalHandler(apiKey, proxy, storedRole)]
  /\ UNCHANGED <<entries, projects, nextId, now, last, calls, auth, clients>>

NextRoles ==
  \/ \E proxy \in ProxyInputs, storedRole \in StoredRoles : HttpSignIn(proxy, storedRole)
  \/ \E apiKey \in ApiKeys, proxy \in ProxyInputs, storedRole \in StoredRoles :
       McpSignIn(apiKey, proxy, storedRole)
  \/ Reply

SpecRoles == Init /\ [][NextRoles]_vars

\* ================================== projects and clients (services and tools)

\* rows the projects and clients tables hold at most
MaxProjects == 3
MaxClients == 3

\* the ids nanoid() gives to new rows, in the order it gives them
FreshProjectIds == <<"p4", "p5">>
FreshClientIds == <<"c3", "c4">>

\* the first of the ids that names no row of the table yet
FreshId(ids, table) ==
  ids[CHOOSE i \in DOMAIN ids :
        ids[i] \notin DOMAIN table /\ \A j \in 1..(i - 1) : ids[j] \in DOMAIN table]

\* client ids as the tools receive them; c0 names no row
ClientIdArgs == {"c0", "c1", "c2", "c3"}

ClientNotFound == "Error: Client not found"
ProjectHasEntries == "Error: Cannot deactivate project that has tracked time entries"
ClientHasEntries == "Error: Cannot deactivate client that has tracked time entries"
NotFound == "not found"

\* the clientId and active parameters of update_project; null when left out
ProjectData(clientId, active) == [clientId |-> clientId, active |-> active]
ProjectUpdates ==
  {ProjectData(c, a) : c \in {Null, Some("c2"), Some("c0")},
                       a \in {Null, Some(TRUE), Some(FALSE)}}

\* db.update(projects).set(updateData).where(eq(projects.id, projectId))
SetProject(projs, projectId, data) ==
  [projs EXCEPT ![projectId] =
     [@ EXCEPT !.clientId = IF IsNull(data.clientId) THEN @ ELSE Val(data.clientId),
               !.active = IF IsNull(data.active) THEN @ ELSE Val(data.active)]]

\* ProjectService.updateProject: 'Client not found' for a clientId that
\* names no client, else the update; null when no row has the id
UpdateProjectOutcome(projs, cls, projectId, data) ==
  IF ~IsNull(data.clientId) /\ Val(data.clientId) # "" /\ Val(data.clientId) \notin DOMAIN cls
  THEN ClientNotFound
  ELSE IF projectId \in DOMAIN projs THEN Updated
  ELSE NotFound

\* create_project
CreateProject(userId, clientId) ==
  /\ Idle
  /\ Cardinality(DOMAIN projects) < MaxProjects
  /\ IF clientId \notin DOMAIN clients
     THEN /\ last' = Outcome("createProject", ClientNotFound)
          /\ UNCHANGED projects
     ELSE LET id == FreshId(FreshProjectIds, projects) IN
            /\ projects' = [p \in DOMAIN projects \cup {id} |->
                              IF p = id
                              THEN [userId |-> userId, clientId |-> clientId, active |-> TRUE]
                              ELSE projects[p]]
            /\ last' = Outcome("createProject", Created)
  /\ UNCHANGED <<entries, nextId, now, calls, auth, req, clients>>

\* update_project
UpdateProject(userId, projectId, data) ==
  LET r == UpdateProjectOutcome(projects, clients, projectId, data) IN
  /\ Idle
  /\ projects' = IF r = Updated THEN SetProject(projects, projectId, data) ELSE projects
  /\ last' = Outcome("updateProject", r)
  /\ UNCHANGED <<entries, nextId, now, calls, auth, req, clients>>

\* deactivate_project: refused when a time entry names the project
DeactivateProject(userId, projectId) ==
  LET r == IF \E id \in DOMAIN entries : entries[id].projectId = projectId
           THEN ProjectHasEntries
           ELSE UpdateProjectOutcome(projects, clients, projectId,
                                     ProjectData(Null, Some(FALSE)))
  IN /\ Idle
     /\ projects' = IF r = Updated
                    THEN SetProject(projects, projectId, ProjectData(Null, Some(FALSE)))
                    ELSE projects
     /\ last' = Outcome("deactivateProject", r)
     /\ UNCHANGED <<entries, nextId, now, calls, auth, req, clients>>

\* create_client
CreateClient(userId) ==
  /\ Idle
  /\ Cardinality(DOMAIN clients) < MaxClients
  /\ LET id == FreshId(FreshClientIds, clients) IN
       clients' = [c \in DOMAIN clients \cup {id} |->
                     IF c = id THEN [userId |-> userId, active |-> TRUE] ELSE clients[c]]
  /\ last' = Outcome("createClient", Created)
  /\ UNCHANGED <<entries, projects, nextId, now, calls, auth, req>>

\* update_client with the active parameter given or left out
UpdateClient(userId, clientId, active) ==
  /\ Idle
  /\ clients' = IF clientId \in DOMAIN clients /\ ~IsNull(active)
                THEN [clients EXCEPT ![clientId].active = Val(active)]
                ELSE clients
  /\ last' = Outcome("updateClient", IF clientId \in DOMAIN clients THEN Updated ELSE NotFound)
  /\ UNCHANGED <<entries, projects, nextId, now, calls, auth, req>>

\* the time entries of the projects of a client
ClientEntries(es, projs, clientId) ==
  {id \in DOMAIN es : /\ es[id].projectId \in DOMAIN projs
                      /\ projs[es[id].projectId].clientId = clientId}

\* deactivate_client: refused when a project of the client has a time entry
DeactivateClient(userId, clientId) ==
  LET r == IF ClientEntries(entries, projects, clientId) # {} THEN ClientHasEntries
           ELSE IF clientId \in DOMAIN clients THEN Updated
           ELSE NotFound
  IN /\ Idle
     /\ clients' = IF r = Updated THEN [clients EXCEPT ![clientId].active = FALSE]
                   ELSE clients
     /\ last' = Outcome("deactivateClient", r)
     /\ UNCHANGED <<entries, projects, nextId, now, calls, auth, req>>

NextProjects ==
  \/ \E u \in Users, c \in ClientIdArgs : CreateProject(u, c)
  \/ \E u \in Users, p \in ProjectIds, data \in ProjectUpdates : UpdateProject(u, p, data)
  \/ \E u \in Users, p \in ProjectIds : DeactivateProject(u, p)
  \/ \E u \in Users : CreateClient(u)
  \/ \E u \in Users, c \in ClientIdArgs, active \in {Null, Some(TRUE), Some(FALSE)} :
       UpdateClient(u, c, active)
  \/ \E u \in Users, c \in ClientIdArgs : DeactivateClient(u, c)
  \/ \E u \in Users, p \in ProjectIds : StartTimeTracking(u, p, "a")
  \/ \E u \in Users, p \in ProjectIds :
       AddManualTimeEntry(u, p, "a", 0, MsPerMinute + MsPerMinute \div 2)
  \/ Respond

SpecProjects == Init /\ [][NextProjects]_vars

\* ================================================================ claims

ConflictResults == {ActiveExists, TimerRunning}
NotFoundResults == {ProjectNotFound, HttpProjectNotFound}
SuccessResults == {Created, Http201}

\* m is d / 60000 rounded to the nearest integer, halves rounded up:
\* m - 1/2 <= d / 60000 < m + 1/2
IsRoundHalfUp(m, d) ==
  /\ 2 * MsPerMinute * m - MsPerMinute <= 2 * d
  /\ 2 * d < 2 * MsPerMinute * m + MsPerMinute

\* ---- C1
\* C1: with requests served one at a time, every user has at most one time
\* entry with isActive = true in every reachable state.
C1_SingleActiveTimer ==
  \A u \in Users : Cardinality(ActiveIds(entries, u)) <= 1

\* a user started a second timer after the first one was closed
C1_Witness ==
  /\ last.op \in {"startTimeTracking", "POST"}
  /\ last.result \in SuccessResults
  /\ \E u \in Users : \E a, b \in DOMAIN entries :
       /\ entries[a].userId = u /\ entries[b].userId = u
       /\ entries[a].isActive /\ ~entries[b].isActive

\* ---- C2
AllDone == \A c \in Calls : calls[c].pc = "done"

\* the start calls for user u that passed a project their handler accepts
ValidStarts(u) ==
  {c \in Calls : /\ calls[c].userId = u
                 /\ IF calls[c].path = "svc"
                    THEN ProjectOfUser(projects, calls[c].projectId, u)
                    ELSE calls[c].projectId \in DOMAIN projects}

\* C2: when two or more start calls for the same Idle user run concurrently,
\* exactly one of them succeeds and every other one fails with the conflict.
C2_ExactlyOneStartSucceeds ==
  \A u \in Users :
    (AllDone /\ Cardinality(ValidStarts(u)) >= 2) =>
      /\ Cardinality({c \in ValidStarts(u) : calls[c].result \in SuccessResults}) = 1
      /\ \A c \in ValidStarts(u) : calls[c].result \in SuccessResults \cup ConflictResults

\* ---- C3
\* C3: for every time entry, isActive is true if and only if endTime is null
\* and durationMinutes is null.
C3_ActiveIffOpen ==
  \A id \in DOMAIN entries :
    entries[id].isActive <=> (IsNull(entries[id].endTime) /\ IsNull(entries[id].durationMinutes))

\* ---- C4
\* C4 as stated: every time entry whose endTime is set has endTime > startTime
\* and durationMinutes = (endTime - startTime) / 60000 rounded half up.
C4_ClosedEntriesOrdered ==
  \A id \in DOMAIN entries :
    ~IsNull(entries[id].endTime) =>
      /\ Val(entries[id].endTime) > entries[id].startTime
      /\ ~IsNull(entries[id].durationMinutes)
      /\ IsRoundHalfUp(Val(entries[id].durationMinutes),
                       Val(entries[id].endTime) - entries[id].startTime)

\* C4 amended: every time entry whose endTime is set has durationMinutes =
\* (endTime - startTime) / 60000 rounded to the nearest minute, halves
\* rounded up, whatever the order of the two times.
C4_DurationMatchesTimes ==
  \A id \in DOMAIN entries :
    ~IsNull(entries[id].endTime) =>
      /\ ~IsNull(entries[id].durationMinutes)
      /\ IsRoundHalfUp(Val(entries[id].durationMinutes),
                       Val(entries[id].endTime) - entries[id].startTime)

\* an update stored an end time a minute and a half before the start time,
\* and the duration -1 with it
C4_Witness ==
  /\ last.op = "updateTimeEntry" /\ last.result = Updated
  /\ \E id \in DOMAIN entries :
       /\ ~IsNull(entries[id].endTime)
       /\ 2 * (Val(entries[id].endTime) - entries[id].startTime) = -3 * MsPerMinute
       /\ entries[id].durationMinutes = Some(-1)

\* ---- C5
\* C5 as stated: a start call (either path) for a user who has an active
\* entry fails with the conflict and changes no entry.
C5_StartWhileRunningConflicts ==
  [][last'.op \in {"startTimeTracking", "POST"} =>
     \A u \in Users, p \in ProjectIds, d \in Descriptions :
       (ActiveIds(entries, u) # {} /\ (StartTimeTracking(u, p, d) \/ PostTimeEntry(u, p, d)))
         => (last'.result \in ConflictResults /\ entries' = entries)]_vars

\* C5 amended: a start call for a user who has an active entry fails and
\* changes no entry; the failure is the conflict when the handler's project
\* lookup succeeds (always on the HTTP path, which looks for the active timer
\* first) and the service's project-not-found error when that lookup fails.
C5_StartWhileRunningFails ==
  [][last'.op \in {"startTimeTracking", "POST"} =>
     \A u \in Users, p \in ProjectIds, d \in Descriptions :
       ActiveIds(entries, u) # {} =>
         /\ StartTimeTracking(u, p, d) =>
              /\ entries' = entries /\ nextId' = nextId
              /\ last'.result = IF ProjectOfUser(projects, p, u) THEN ActiveExists
                                                                 ELSE ProjectNotFound
         /\ PostTimeEntry(u, p, d) =>
              /\ entries' = entries /\ nextId' = nextId
              /\ last'.result = TimerRunning]_vars

\* a start was refused with the conflict while a timer was running
C5_Witness ==
  /\ last.op \in {"startTimeTracking", "POST"}
  /\ last.result \in ConflictResults
  /\ \E u \in Users : ActiveIds(entries, u) # {}

\* ---- C6
\* C6: for an Idle user, start succeeds exactly when a project with the given
\* id exists, whoever created it, and fails with not-found otherwise, on the
\* service path as on the HTTP path.
C6_StartNeedsOnlyExistingProject ==
  [][last'.op \in {"startTimeTracking", "POST"} =>
     \A u \in Users, p \in ProjectIds, d \in Descriptions :
       (ActiveIds(entries, u) = {} /\ (StartTimeTracking(u, p, d) \/ PostTimeEntry(u, p, d)))
         => IF p \in DOMAIN projects
            THEN last'.result \in SuccessResults /\ ActiveIds(entries', u) # {}
            ELSE last'.result \in NotFoundResults /\ entries' = entries]_vars

\* ---- C7
\* the row a stop at time t leaves behind
Closed(row, t) ==
  /\ row.endTime = Some(t)
  /\ ~IsNull(row.durationMinutes)
  /\ IsRoundHalfUp(Val(row.durationMinutes), t - row.startTime)
  /\ ~row.isActive

\* the step is a stop that closes u's active entry a and nothing else
StopCloses(u, a) ==
  /\ last'.result = Stopped
  /\ DOMAIN entries' = DOMAIN entries
  /\ \A id \in DOMAIN entries : id # a => entries'[id] = entries[id]
  /\ Closed(entries'[a], now)
  /\ entries'[a] = [entries[a] EXCEPT !.endTime = entries'[a].endTime,
                                      !.durationMinutes = entries'[a].durationMinutes,
                                      !.isActive = FALSE]
  /\ ActiveIds(entries', u) = {}

\* the step is a stop that fails with not-found and changes nothing
StopFails == last'.result = NoActiveEntry /\ entries' = entries

\* C7 as stated: stop closes the user's active entry when no entryId is
\* given or entryId names it, and fails with not-found, changing nothing,
\* when the user has no active entry or a given entryId does not name it.
C7_StopClosesOrNotFound ==
  [][last'.op = "stopTimeTracking" =>
     \A u \in Users, id \in EntryIdArgs \cup {Undefined, ""} :
       StopTimeTracking(u, id) =>
         IF ActiveIds(entries, u) # {} /\ (id = Undefined \/ id \in ActiveIds(entries, u))
         THEN \E a \in ActiveIds(entries, u) : StopCloses(u, a)
         ELSE StopFails]_vars

\* C7 amended: an empty-string entryId counts as no entryId; stop fails with
\* not-found when the user has no active entry or a given non-empty entryId
\* does not name it, and otherwise closes the user's active entry.
C7_StopClosesOrNotFoundNonEmpty ==
  [][last'.op = "stopTimeTracking" =>
     \A u \in Users, id \in EntryIdArgs \cup {Undefined, ""} :
       StopTimeTracking(u, id) =>
         IF ActiveIds(entries, u) # {} /\ (id \in {Undefined, ""} \/ id \in ActiveIds(entries, u))
         THEN \E a \in ActiveIds(entries, u) : StopCloses(u, a)
         ELSE StopFails]_vars

\* a stop closed a running timer at the current instant
C7_Witness ==
  /\ last.op = "stopTimeTracking" /\ last.result = Stopped
  /\ \E id \in DOMAIN entries : Closed(entries[id], now)

\* ---- C8
\* C8: for every running timer, the pause branch and the stop branch of the
\* PATCH handler write the same store, which holds the entry closed (not
\* resumable); only the label of the response differs.
C8_PauseEqualsStop ==
  \A u \in Users : \A id \in ActiveIds(entries, u) :
    /\ PatchTable(entries, id, "pause", now) = PatchTable(entries, id, "stop", now)
    /\ Closed(PatchTable(entries, id, "pause", now)[id], now)
    /\ PatchLabel("pause") # PatchLabel("stop")

\* a pause was served and left a closed entry behind
C8_Witness ==
  /\ last.op = "PATCH" /\ last.result = "paused"
  /\ \E id \in DOMAIN entries : Closed(entries[id], now)

\* ---- C9
\* C9: addManualEntry with an existing project fails with 'End time must be
\* after start time', inserting nothing, when endTime <= startTime, and
\* otherwise inserts exactly one closed entry with the computed duration.
C9_ManualEntryValidated ==
  [][last'.op = "addManualTimeEntry" =>
     \A u \in Users, p \in DOMAIN projects, d \in Descriptions, s \in InputTimes, e \in InputTimes :
       AddManualTimeEntry(u, p, d, s, e) =>
         IF e <= s
         THEN last'.result = EndBeforeStart /\ entries' = entries
         ELSE /\ last'.result = Created
              /\ \E id \in DOMAIN entries' \ DOMAIN entries :
                   /\ DOMAIN entries' = DOMAIN entries \cup {id}
                   /\ \A i \in DOMAIN entries : entries'[i] = entries[i]
                   /\ ~entries'[id].isActive
                   /\ entries'[id].durationMinutes = Some(DurationMinutes(s, e))]_vars

\* ---- C10
\* C10: addManualEntry, succeeding or failing, leaves every user's active
\* entry the same entry with the same fields, and it is accepted while the
\* user has a running timer.
C10_ManualEntryKeepsTimerState ==
  [][last'.op = "addManualTimeEntry" =>
     \A u \in Users, p \in ProjectIds, d \in Descriptions, s \in InputTimes, e \in InputTimes :
       AddManualTimeEntry(u, p, d, s, e) =>
         /\ \A v \in Users :
              /\ ActiveIds(entries', v) = ActiveIds(entries, v)
              /\ \A id \in ActiveIds(entries, v) : entries'[id] = entries[id]
         /\ (ProjectOfUser(projects, p, u) /\ e > s) => last'.result = Created]_vars

\* a manual entry was added for a user whose timer is running
C10_Witness ==
  /\ last.op = "addManualTimeEntry" /\ last.result = Created
  /\ \E u \in Users : \E a, b \in DOMAIN entries :
       /\ entries[a].userId = u /\ entries[b].userId = u
       /\ entries[a].isActive /\ IsNull(entries[a].endTime)
       /\ ~entries[b].isActive /\ b = IdNames[nextId - 1]

\* ---- C11
\* the entry id names a row that belongs to user u
BelongsTo(es, u, id) == \E i \in DOMAIN es : i = id /\ es[i].userId = u

\* C11: updateEntry(userId, entryId, partial) returns null and changes no
\* entry when no entry with that id belongs to userId (unknown id, or the id
\* of another user's entry), with or without time fields in the partial; it
\* never raises an error for a missing entry.
\* (an update step either returned null and changed nothing, or no call that
\* names a missing entry produces it)
C11_UpdateOfMissingEntryReturnsNull ==
  [][last'.op = "updateTimeEntry" =>
     \/ (last'.result = ReturnsNull /\ entries' = entries /\ nextId' = nextId)
     \/ \A u \in Users, id \in EntryIdArgs, data \in UpdateData :
          BelongsTo(entries, u, id) \/ ~UpdateTimeEntry(u, id, data)]_vars

\* an update returned null while the table held an entry of another user
C11_Witness ==
  /\ last.op = "updateTimeEntry" /\ last.result = ReturnsNull
  /\ \E u \in Users : \E id \in DOMAIN entries : entries[id].userId # u

\* ---- C13
\* C13: deleteEntry(userId, entryId) returns true exactly when an entry with
\* that id and that userId existed, and then that entry and no other is
\* removed; in every other case it returns false and removes nothing.
C13_DeleteReturnsWhetherRemoved ==
  [][last'.op = "deleteTimeEntry" =>
     \A u \in Users, id \in EntryIdArgs :
       DeleteTimeEntry(u, id) =>
         IF BelongsTo(entries, u, id)
         THEN /\ last'.result = "true"
              /\ DOMAIN entries' = DOMAIN entries \ {id}
              /\ \A i \in DOMAIN entries' : entries'[i] = entries[i]
         ELSE /\ last'.result = "false"
              /\ entries' = entries]_vars

\* a delete returned true and left another entry in the table
C13_Witness ==
  /\ last.op = "deleteTimeEntry" /\ last.result = "true"
  /\ Cardinality(DOMAIN entries) = 1 /\ nextId = 3

\* ---- C14
\* the step leaves every entry of a user other than u as it was, and the
\* owner of every entry it keeps
OthersUntouched(u) ==
  /\ \A id \in DOMAIN entries :
       entries[id].userId # u => (id \in DOMAIN entries' /\ entries'[id] = entries[id])
  /\ \A id \in DOMAIN entries \cap DOMAIN entries' :
       entries'[id].userId = entries[id].userId

\* the step is a timer operation invoked with user id u
TimerOperationOf(u) ==
  \/ /\ last'.op = "startTimeTracking"
     /\ \E p \in ProjectIds, d \in Descriptions : StartTimeTracking(u, p, d)
  \/ /\ last'.op = "POST"
     /\ \E p \in ProjectIds \cup {""}, d \in Descriptions : PostTimeEntry(u, p, d)
  \/ /\ last'.op = "stopTimeTracking"
     /\ \E id \in EntryIdArgs \cup {Undefined, ""} : StopTimeTracking(u, id)
  \/ /\ last'.op = "PATCH"
     /\ \E a \in {"stop", "pause", "resume"} : PatchActive(u, a)
  \/ /\ last'.op = "addManualTimeEntry"
     /\ \E p \in ProjectIds, d \in Descriptions, s \in InputTimes, e \in InputTimes :
          AddManualTimeEntry(u, p, d, s, e)
  \/ /\ last'.op = "updateTimeEntry"
     /\ \E id \in EntryIdArgs, data \in UpdateData : UpdateTimeEntry(u, id, data)
  \/ /\ last'.op = "deleteTimeEntry"
     /\ \E id \in EntryIdArgs : DeleteTimeEntry(u, id)

\* C14: every timer operation invoked with user id u (start, stop, pause,
\* addManualEntry, updateEntry, deleteEntry), whatever entryId it is given and
\* whatever its outcome, leaves every entry whose userId differs from u
\* unchanged and never changes the userId of any entry.
C14_OtherUsersEntriesUntouched ==
  [][last'.op # "none" =>
     \A u \in Users : TimerOperationOf(u) => OthersUntouched(u)]_vars

\* a user's timer was stopped while another user's timer kept running
C14_Witness ==
  /\ last.op = "stopTimeTracking" /\ last.result = Stopped
  /\ \E a, b \in DOMAIN entries :
       /\ entries[a].userId # entries[b].userId
       /\ ~entries[a].isActive /\ entries[a].endTime = Some(now)
       /\ entries[b].isActive /\ IsNull(entries[b].endTime)

\* ---- C15
\* C15: getActiveEntry changes no state, and a further getActiveEntry call
\* for the same user with no mutating operation in between returns the same
\* result: the same entry, or none.
C15_GetActiveReadsOnly ==
  [][last'.op = "getActiveTimeEntry" =>
     \A u \in Users :
       GetActiveTimeEntry(u) =>
         /\ entries' = entries /\ projects' = projects
         /\ nextId' = nextId /\ now' = now
         /\ ActiveEntryResults(entries', u) = {last'.result}]_vars

\* the lookup returned the running entry of a user
C15_Witness ==
  /\ last.op = "getActiveTimeEntry"
  /\ \E id \in DOMAIN entries : last.result = id /\ entries[id].isActive

\* ---- C12
\* C12: for every entry whose end time is later than its start time, the
\* durationMinutes that stop, addManualEntry and updateEntry store for these
\* two timestamps is one and the same value: (end - start) / 60000 rounded to
\* the nearest integer, halves rounded up.
C12_OneDurationRule ==
  \A id \in DOMAIN entries :
    LET row == entries[id]
        s == row.startTime
    IN (~IsNull(row.endTime) /\ Val(row.endTime) > s) =>
         LET e == Val(row.endTime)
             byStop == StopRow([row EXCEPT !.endTime = Null], e).durationMinutes
             byManual == NewManualEntry(id, row.userId, row.projectId, row.description,
                                        s, e).durationMinutes
             byUpdate == UpdateRow(row, [description |-> Undefined, startTime |-> Null,
                                         endTime |-> Some(e)]).durationMinutes
         IN /\ ~IsNull(row.durationMinutes)
            /\ IsRoundHalfUp(Val(row.durationMinutes), e - s)
            /\ byStop = row.durationMinutes
            /\ byManual = row.durationMinutes
            /\ byUpdate = row.durationMinutes

\* a stop after exactly half a minute stored one minute, next to an entry
\* one ms shorter that an update or a manual entry stored as zero minutes
C12_Witness ==
  /\ last.op = "stopTimeTracking" /\ last.result = Stopped
  /\ \E a, b \in DOMAIN entries :
       /\ entries[a].endTime = Some(now)
       /\ now - entries[a].startTime = HalfMinute
       /\ entries[a].durationMinutes = Some(1)
       /\ ~IsNull(entries[b].endTime)
       /\ Val(entries[b].endTime) - entries[b].startTime = HalfMinute - 1
       /\ entries[b].durationMinutes = Some(0)

\* ---- C16
\* the roles of a context, and whether one of them grants permission p
RolesOf(context) == {context.roles[i] : i \in DOMAIN context.roles}
Grants(context, p) ==
  \E r \in RolesOf(context) : \E i \in DOMAIN RolePermissions[r] : RolePermissions[r][i] = p

\* the users listed in the context's directReports; none when it is absent
ReportsOf(context) ==
  IF context.metadata.defined /\ context.metadata.directReports # Null
  THEN {Val(context.metadata.directReports)[i] : i \in DOMAIN Val(context.metadata.directReports)}
  ELSE {}

\* C16: canViewUserTimesheets(ctx, target) is authorized if and only if the
\* target is the principal, or a role of ctx grants VIEW_ALL_TIMESHEETS, or a
\* role grants VIEW_USER_TIMESHEETS and the target is in ctx's directReports,
\* an absent directReports counting as empty.
C16_ViewUserTimesheetsRule ==
  auth.op = "canViewUserTimesheets" =>
    (auth.result.authorized <=>
       \/ auth.targetUserId = auth.context.userId
       \/ Grants(auth.context, VIEW_ALL_TIMESHEETS)
       \/ /\ Grants(auth.context, VIEW_USER_TIMESHEETS)
          /\ auth.targetUserId \in ReportsOf(auth.context))

\* a manager was allowed to view the timesheets of a direct report
C16_Witness ==
  /\ auth.op = "canViewUserTimesheets" /\ auth.result.authorized
  /\ auth.context.roles = <<MANAGER>>
  /\ auth.targetUserId # auth.context.userId
  /\ auth.targetUserId \in ReportsOf(auth.context)

\* ---- C17
\* the requested ids other than the principal's
OtherTargets ==
  {Val(auth.targetUserIds)[i] : i \in DOMAIN Val(auth.targetUserIds)} \ {auth.context.userId}

\* the user ids a reason names
NamedIn(reason) == {Val(reason)[i] : i \in DOMAIN Val(reason)} \cap AuthIds

\* C17: canViewReports(ctx, targetIds) is authorized when targetIds is
\* undefined, empty or holds only the principal's id; otherwise it is
\* authorized if and only if a role grants VIEW_ALL_TIMESHEETS, or a role
\* grants VIEW_USER_TIMESHEETS and every requested id is the principal or a
\* direct report; a manager's denial reason names every unauthorized
\* requested id and no authorized one.
C17_ViewReportsRule ==
  auth.op = "canViewReports" =>
    IF auth.targetUserIds = Null THEN auth.result.authorized
    ELSE /\ OtherTargets = {} => auth.result.authorized
         /\ OtherTargets # {} =>
              (auth.result.authorized <=>
                 \/ Grants(auth.context, VIEW_ALL_TIMESHEETS)
                 \/ /\ Grants(auth.context, VIEW_USER_TIMESHEETS)
                    /\ OtherTargets \subseteq ReportsOf(auth.context))
         /\ (~auth.result.authorized /\ MANAGER \in RolesOf(auth.context)) =>
              /\ auth.result.reason # Null
              /\ NamedIn(auth.result.reason) = OtherTargets \ ReportsOf(auth.context)

\* a manager asked for a direct report and a stranger, and the denial names
\* the stranger alone
C17_Witness ==
  /\ auth.op = "canViewReports" /\ ~auth.result.authorized
  /\ auth.context.userId = "m" /\ auth.context.roles = <<MANAGER>>
  /\ auth.targetUserIds = Some(<<"u1", "u9">>)
  /\ ReportsOf(auth.context) = {"u1"}
  /\ auth.result.reason = Some(<<"Cannot view reports for users: ", "u9">>)

\* ---- C18
\* a letter of a role name and its capital
Capitals == {<<"h", "H">>, <<"r", "R">>, <<"m", "M">>, <<"a", "A">>, <<"n", "N">>,
             <<"g", "G">>, <<"e", "E">>, <<"d", "D">>, <<"i", "I">>, <<"u", "U">>,
             <<"s", "S">>}

\* chars spells name, in whatever casing
Spells(chars, name) ==
  /\ Len(chars) = Len(name)
  /\ \A i \in DOMAIN name : chars[i] = name[i] \/ <<name[i], chars[i]>> \in Capitals

\* the role a role string stands for
RoleNamed(value) ==
  IF value.kind # "string" THEN USER
  ELSE IF Spells(value.chars, HrChars) THEN HR
  ELSE IF Spells(value.chars, ManagerChars) THEN MANAGER
  ELSE IF Spells(value.chars, AdminChars) THEN ADMIN
  ELSE USER

\* C18: the context createAuthorizationContext builds never has an empty
\* role list, whatever the roles input is (null, undefined, a string, an
\* empty string, an empty array, an array of strings); each role string is
\* mapped case-insensitively to HR, MANAGER, ADMIN or USER, and every
\* unrecognised, empty or null role string to USER.
C18_RolesNeverEmpty ==
  auth.built =>
    /\ Len(auth.context.roles) >= 1
    /\ auth.input.kind = "array" /\ auth.input.items # <<>> =>
         /\ Len(auth.context.roles) = Len(auth.input.items)
         /\ \A i \in DOMAIN auth.input.items :
              auth.context.roles[i] = RoleNamed(auth.input.items[i])
    /\ auth.input.kind = "string" =>
         auth.context.roles = <<RoleNamed(StringValue(auth.input.chars))>>
    /\ (auth.input.kind \in {"null", "undefined"}
        \/ (auth.input.kind = "array" /\ auth.input.items = <<>>)) =>
         auth.context.roles = <<USER>>

\* the array ['HR', null] became [HR, USER]
C18_Witness ==
  /\ auth.built
  /\ auth.input = RolesInput("array", <<>>, <<StringValue(<<"H", "R">>), NullValue>>)
  /\ auth.context.roles = <<HR, USER>>

\* ---- C19
\* C19: hasPermission(ctx, p) is true if and only if at least one role of ctx
\* maps to p in the static role-to-permission table; in particular
\* canViewAllTimesheets is authorized exactly for the contexts whose roles
\* contain HR or ADMIN.
C19_PermissionFromAnyRole ==
  /\ auth.op = "hasPermission" =>
       (auth.result.authorized <=> Grants(auth.context, auth.permission))
  /\ auth.op = "canViewAllTimesheets" =>
       (auth.result.authorized <=> (HR \in RolesOf(auth.context) \/ ADMIN \in RolesOf(auth.context)))

\* the permission was granted by the second role of the context
C19_Witness ==
  /\ auth.op = "hasPermission" /\ auth.result.authorized
  /\ auth.context.roles = <<USER, HR>>
  /\ auth.permission = VIEW_ALL_REPORTS

\* ---- C20
\* C20: for every context built by createAuthorizationContext and every
\* argument, canViewAllTimesheets, canViewUserTimesheets and canViewReports
\* return without throwing, with a non-empty reason whenever authorized is
\* false and no reason when authorized is true.
C20_ResultWellFormed ==
  auth.op \in {"canViewAllTimesheets", "canViewUserTimesheets", "canViewReports"} =>
    /\ ~auth.result.threw
    /\ auth.result.authorized => auth.result.reason = Null
    /\ ~auth.result.authorized =>
         /\ auth.result.reason # Null
         /\ \E i \in DOMAIN Val(auth.result.reason) : Val(auth.result.reason)[i] # ""

\* a user without a privileged role was refused all timesheets, with a reason
C20_Witness ==
  /\ auth.op = "canViewAllTimesheets" /\ ~auth.result.authorized
  /\ auth.result.reason =
       Some(<<"User with roles [", USER, ", ", MANAGER,
              "] does not have permission to view all timesheets">>)

\* ---- C28
\* C28: for every context and every list of target ids, canViewReports(ctx,
\* ids) is authorized if and only if canViewUserTimesheets(ctx, id) is
\* authorized for every id of ids; the multi-user report check and the
\* per-user timesheet check never disagree.
C28_ReportsAgreeWithTimesheets ==
  (auth.op = "canViewReports" /\ auth.targetUserIds # Null) =>
    (auth.result.authorized <=>
       \A i \in DOMAIN Val(auth.targetUserIds) :
         canViewUserTimesheets(auth.context, Val(auth.targetUserIds)[i]).authorized)

\* a manager asked for two direct reports and both checks allow it
C28_Witness ==
  /\ auth.op = "canViewReports" /\ auth.result.authorized
  /\ auth.context.userId = "m" /\ auth.context.roles = <<MANAGER>>
  /\ auth.targetUserIds = Some(<<"u9", "u1">>)
  /\ canViewUserTimesheets(auth.context, "u9").authorized
  /\ canViewUserTimesheets(auth.context, "u1").authorized

\* ---- C30
\* the context with one more role, put before or after the roles it has
MoreRoles(context) ==
  {[context EXCEPT !.roles = <<r>> \o @] : r \in {USER, HR, MANAGER, ADMIN}}
    \cup {[context EXCEPT !.roles = @ \o <<r>>] : r \in {USER, HR, MANAGER, ADMIN}}

\* the context with one more id in its directReports
MoreReports(context) ==
  {[context EXCEPT !.metadata =
      Metadata(TRUE, Some((IF context.metadata.defined /\ context.metadata.directReports # Null
                           THEN Val(context.metadata.directReports) ELSE <<>>) \o <<id>>))]
     : id \in AuthIds}

\* the check the state records, made on another context
SameCheck(context) ==
  IF auth.op = "canViewAllTimesheets" THEN canViewAllTimesheets(context)
  ELSE IF auth.op = "canViewUserTimesheets"
  THEN canViewUserTimesheets(context, auth.targetUserId)
  ELSE canViewReports(context, auth.targetUserIds)

\* the role string names none of the four roles
Unrecognised(value) ==
  /\ value.kind = "string"
  /\ \A name \in {HrChars, ManagerChars, AdminChars, UserChars} : ~Spells(value.chars, name)

\* the roles input holds unrecognised role strings only
OnlyUnrecognised(input) ==
  \/ input.kind = "string" /\ Unrecognised(StringValue(input.chars))
  \/ /\ input.kind = "array" /\ input.items # <<>>
     /\ \A i \in DOMAIN input.items : Unrecognised(input.items[i])

\* C30: authorization is monotone in privileges: adding a role to ctx.roles
\* or an id to ctx.metadata.directReports never turns an authorized result
\* of canViewAllTimesheets, canViewUserTimesheets or canViewReports into a
\* denial, and a context built only from unrecognised role strings is
\* authorized for exactly the same requests as a plain USER.
C30_MonotoneInPrivileges ==
  auth.op \in {"canViewAllTimesheets", "canViewUserTimesheets", "canViewReports"} =>
    /\ auth.result.authorized =>
         \A context \in MoreRoles(auth.context) \cup MoreReports(auth.context) :
           SameCheck(context).authorized
    /\ OnlyUnrecognised(auth.input) =>
         auth.result.authorized = SameCheck([auth.context EXCEPT !.roles = <<USER>>]).authorized

\* an HR principal was allowed another user's timesheets, and still is with
\* USER put before HR
C30_Witness ==
  /\ auth.op = "canViewUserTimesheets" /\ auth.result.authorized
  /\ auth.context.roles = <<HR>>
  /\ auth.targetUserId # auth.context.userId
  /\ canViewUserTimesheets([auth.context EXCEPT !.roles = <<USER, HR>>],
                           auth.targetUserId).authorized

\* ---- C21
\* the context an HTTP route builds for the principal of the request:
\* createAuthorizationContext(user.userId, user.role), without metadata
PrincipalContext ==
  createAuthorizationContext(req.userId,
    IF req.role.kind = "string" THEN RolesInput("string", req.role.chars, <<>>)
    ELSE RolesInput("null", <<>>, <<>>),
    Metadata(FALSE, Null))

\* the response was a denial and holds no entry of another user
DeniedWithoutOthers ==
  /\ req.status = 403
  /\ \A row \in req.entries : row.userId = req.userId

\* C21: a listing request with userFilter = "all" returns entries of users
\* other than the principal only if canViewAllTimesheets is authorized for
\* the principal (a role of HR or ADMIN); for every other principal the
\* request is denied and no other user's entry is returned.
C21_ListAllNeedsViewAll ==
  (req.op = "list" /\ req.userFilter = Some(AllChars)) =>
    \/ canViewAllTimesheets(PrincipalContext).authorized
    \/ DeniedWithoutOthers

\* ---- C22
\* chars is the id with blanks around it
NamesId(chars, id) ==
  \E a \in 1..(Len(chars) + 1) :
    /\ a + Len(id) - 1 <= Len(chars)
    /\ SubSeq(chars, a, a + Len(id) - 1) = id
    /\ \A k \in DOMAIN chars : (k < a \/ k > a + Len(id) - 1) => chars[k] = " "

\* the users a filter asks for: those whose id stands between two commas, or
\* between a comma and an end of the filter
RequestedUsers(userFilter) ==
  IF IsNull(userFilter) THEN {}
  ELSE LET chars == Val(userFilter)
           Bound(k) == k = 0 \/ k = Len(chars) + 1 \/ chars[k] = ","
       IN {u \in Users :
             \E i \in 0..Len(chars), j \in 1..(Len(chars) + 1) :
               /\ i < j /\ Bound(i) /\ Bound(j)
               /\ \A k \in (i + 1)..(j - 1) : chars[k] # ","
               /\ NamesId(SubSeq(chars, i + 1, j - 1), UserIdChars(u))}

\* C22: a listing request whose userFilter is a list of ids containing at
\* least one id different from the principal is scoped to the requested ids
\* only if the principal holds VIEW_ALL_TIMESHEETS or canViewUserTimesheets
\* is authorized for every differing id; otherwise the request is denied and
\* returns no entry of any other user.
C22_ListOfOthersNeedsPermission ==
  (/\ req.op = "list" /\ req.userFilter # Some(AllChars)
   /\ RequestedUsers(req.userFilter) \ {req.userId} # {}) =>
    \/ hasPermission(PrincipalContext, VIEW_ALL_TIMESHEETS) = "true"
    \/ \A u \in RequestedUsers(req.userFilter) \ {req.userId} :
         canViewUserTimesheets(PrincipalContext, u).authorized
    \/ DeniedWithoutOthers

\* ---- C29
\* C29: the listing's user scope is unrestricted only when userFilter is
\* exactly "all"; for every other value of userFilter, including absent,
\* empty, and a value that yields no ids after splitting on commas and
\* trimming, the query is restricted to the principal's own id or to the
\* explicitly requested ids.
C29_UnrestrictedOnlyForAll ==
  (req.op = "list" /\ req.userFilter # Some(AllChars)) =>
    \A row \in req.entries :
      row.userId \in {req.userId} \cup RequestedUsers(req.userFilter)

\* ---- C25
\* the positions of the requested ids that differ from the principal's
Differing(ids, userId) == {i \in DOMAIN ids : ids[i] # userId}

\* C25: the daily-hours report route, given requested user ids with at
\* least one different from the principal, runs the query over the full
\* requested id set only if the principal holds VIEW_ALL_TIMESHEETS or
\* canViewUserTimesheets is authorized for every differing id; otherwise it
\* answers 403 carrying the reason returned for the first unauthorized id
\* in request order, and runs no report query.
C25_DailyReportScope ==
  (/\ req.op = "daily" /\ req.targetUserIds # Null
   /\ Differing(Val(req.targetUserIds), req.userId) # {}) =>
    LET ids == Val(req.targetUserIds)
        refused == {i \in Differing(ids, req.userId) :
                      ~canViewUserTimesheets(PrincipalContext, ids[i]).authorized}
    IN IF Grants(PrincipalContext, VIEW_ALL_TIMESHEETS) \/ refused = {}
       THEN /\ req.status = 200
            /\ req.queried = Some({ids[i] : i \in DOMAIN ids})
       ELSE /\ req.status = 403
            /\ req.queried = Null /\ req.data = Null
            /\ \E i \in refused :
                 /\ \A j \in refused : i <= j
                 /\ req.reason = canViewUserTimesheets(PrincipalContext, ids[i]).reason

\* a manager asked for u2 and u9 and was refused with the reason for u2
C25_Witness ==
  /\ req.op = "daily" /\ req.status = 403
  /\ req.userId = "u1" /\ req.role = StringValue(ManagerChars)
  /\ req.targetUserIds = Some(<<"u2", "u9">>)
  /\ req.reason = Some(<<"User ", "u2", " is not in the manager's direct reports">>)
  /\ req.queried = Null

\* ---- C27
\* C27: in every report function that accepts ReportQueryOptions
\* (getDashboardSummary, getDailyHours, getHoursByProjectCurrentMonth,
\* getMonthlyBilledHours), a non-empty targetUserIds takes precedence over
\* targetUserId, targetUserId is used when targetUserIds is absent or empty,
\* and the authenticated user's id is used when neither is given.
C27_TargetUserIdsFirst ==
  req.op = "report" =>
    LET one == req.options.targetUserId
        many == req.options.targetUserIds
    IN IF many # Null /\ many # Some(<<>>)
       THEN req.queried = {Val(many)[i] : i \in DOMAIN Val(many)}
       ELSE IF one # Null /\ one # Some("")
       THEN req.queried = {Val(one)}
       ELSE req.queried = {req.userId}

\* ---- C26
\* the sums every report returns for every user, the table being es at time t
Aggregates(es, t) ==
  [u \in Users |->
     LET none == ReportQueryOptions(Null, Null)
         summary == getDashboardSummary(es, t, u, none)
     IN [dashboard |-> <<summary.totalHours, summary.weeklyHours, summary.prevWeekMinutes>>,
         daily |-> getDailyHours(es, t, u, DefaultDays, none),
         byProject |-> getHoursByProjectCurrentMonth(es, projects, t, u, none),
         monthly |-> getMonthlyBilledHours(es, t, u, DefaultMonths, none)]]

\* the table without its running entries
WithoutRunning(es) == [id \in {i \in DOMAIN es : ~es[i].isActive} |-> es[id]]

\* C26: every report aggregate (dashboard totals, daily hours, hours by
\* project, monthly hours) sums only entries whose durationMinutes is
\* non-null and never mutates any entry: starting a timer changes no
\* aggregate, and a running entry contributes to the aggregates only from
\* the moment it is stopped.
C26_RunningEntriesNotCounted ==
  [][/\ last'.op \in {"startTimeTracking", "POST"} =>
          Aggregates(entries', now') = Aggregates(entries, now')
     /\ Aggregates(entries', now') = Aggregates(WithoutRunning(entries'), now')]_vars

\* ---- C23
\* the roles a context built from a derived role holds
EffectiveRoles(role) ==
  createAuthorizationContext("u1",
    IF role.kind = "string" THEN RolesInput("string", role.chars, <<>>)
    ELSE RolesInput("null", <<>>, <<>>),
    Metadata(FALSE, Null)).roles

NonEmpty(value) == value.kind = "string" /\ value.chars # <<>>

\* the role the claim of a request asserts: its role, or else the first item
\* of its roles array; null when the request carries no claim
AssertedRole(proxy) ==
  IF proxy = Null THEN NullValue
  ELSE IF NonEmpty(Val(proxy).role) THEN Val(proxy).role
  ELSE IF Val(proxy).roles # Null /\ Val(proxy).roles # Some(<<>>)
  THEN Val(Val(proxy).roles)[1]
  ELSE NullValue

\* the role the precedence order gives: the asserted role when there is
\* one, otherwise the stored role, otherwise USER
RoleByPrecedence(proxy, storedRole) ==
  IF NonEmpty(AssertedRole(proxy)) THEN RoleNamed(AssertedRole(proxy))
  ELSE IF NonEmpty(storedRole) THEN RoleNamed(storedRole)
  ELSE USER

\* C23: at every call site that derives a principal's role
\* (getAuthenticatedUser for HTTP routes and the MCP universal handler), the
\* effective role is taken from the externally asserted claim (role, or the
\* roles array) when one is present, otherwise from the stored database
\* role, otherwise defaults to USER; for the same (claim role, claim roles
\* array, stored role) input both call sites yield the same effective
\* permissions.
C23_RolePrecedence ==
  req.op \in {"getAuthenticatedUser", "universalHandler"} =>
    EffectiveRoles(req.role) = <<RoleByPrecedence(req.proxy, req.storedRole)>>

\* C23, amended: a request to the MCP handler that carries the configured
\* API key gets ADMIN; every other request, at both call sites, gets the
\* claim's role when it is a non-empty string, otherwise the first item of
\* the claim's roles array when that is a non-empty string, otherwise the
\* stored role, otherwise USER.
C23_RolePrecedenceBesidesApiKey ==
  req.op \in {"getAuthenticatedUser", "universalHandler"} =>
    EffectiveRoles(req.role) =
      IF req.apiKey = "valid" THEN <<ADMIN>>
      ELSE <<RoleByPrecedence(req.proxy, req.storedRole)>>

\* an HTTP request whose proxy asserts the roles ['hr', 'Admin'] for a user
\* stored as manager is given HR
C23_Witness ==
  /\ req.op = "getAuthenticatedUser"
  /\ req.proxy = Some(UserInfo(UndefinedValue,
                               Some(<<StringValue(HrChars),
                                      StringValue(<<"A", "d", "m", "i", "n">>)>>)))
  /\ req.storedRole = StringValue(ManagerChars)
  /\ EffectiveRoles(req.role) = <<HR>>

\* ---- C24
\* the project, or the client, has tracked time
ProjectTracked(p) == \E id \in DOMAIN entries : entries[id].projectId = p
ClientTracked(c) ==
  \E id \in DOMAIN entries :
    /\ entries[id].projectId \in DOMAIN projects
    /\ projects[entries[id].projectId].clientId = c

\* C24: after any sequence of project, client and time-tracking operations
\* (create, update, deactivate, start, addManualEntry), a project or client
\* changes from active to inactive only in a state where it has no
\* associated time entries; no operation exposed to users deactivates a
\* project or client that has tracked time.
C24_DeactivatedOnlyWithoutEntries ==
  [][/\ projects' # projects =>
          \A p \in DOMAIN projects :
            (projects[p].active /\ ~projects'[p].active) => ~ProjectTracked(p)
     /\ clients' # clients =>
          \A c \in DOMAIN clients :
            (clients[c].active /\ ~clients'[c].active) => ~ClientTracked(c)]_vars

====
